---- MODULE Spec2Model ----
(***************************************************************************)
(* DoggyHole: a WebSocket messaging hub.  DoggyHoleServer is the router    *)
(* and session registry, DoggyHoleClient the peer with its pending-request *)
(* table and reconnect logic.  Both classes are modelled against an        *)
(* arbitrary peer: the server receives any frame sequence on each socket,  *)
(* the client receives any frame, open, close or error event on each       *)
(* socket it created.                                                      *)
(*                                                                         *)
(* Sockets follow the ws library: readyState is OPEN, CLOSING or CLOSED;   *)
(* close(code) on an OPEN socket makes it CLOSING, frames of the peer keep *)
(* arriving until the 'close' event; send() is only reached when the code  *)
(* has checked readyState === OPEN.                                        *)
(***************************************************************************)
EXTENDS Integers, Sequences, FiniteSets, TLC

\* ------------------------------------------------------------ bounds
MaxConns == 2          \* server-side sockets accepted in a run
MaxAwait == 1          \* request handlers suspended at their await at one time
MaxPeerPending == 1    \* forwarded client_requests not yet answered by the callee
MaxMicrotasks == 1     \* auth frames of one chunk of data whose await is pending
MaxSocks == 3          \* sockets one DoggyHoleClient creates in a run
MaxDepth == 2           \* dispatches of the event bus in progress at once
MaxOps == 2             \* calls of the bus one handler invocation makes
MaxOwed == 2            \* one-shot registrations of a handler awaiting their call
MaxNow == 5000         \* the clock of the server stops here, ms
MaxRequests == 2       \* request() / requestClient() calls that are given an id

\* ------------------------------------------------------------ values
Undefined == "undefined"
Null == "null"
Names == {"alice", "bob"}
Tokens == {"Ta", "Tb"}
Ids == {"1", "2"}
FunctionNames == {"add", "nope"}
EventNames == {"hi", "yo"}
Conns == 1..MaxConns
\* the event bus: event names, handler functions, thrown errors, Set objects
BusNames == {"hi"}
BusHandlers == {"f", "g"}
Errors == {"boom"}
SetIds == 1..(Cardinality(BusNames) + MaxDepth)
NoBStep == [act |-> "init", name |-> "", handler |-> "", error |-> ""]
Socks == 1..MaxSocks

\* ServerOptions defaults
heartbeatEvery == 1000             \* options.heartbeatInterval, ms
heartbeatTimeout == 3000
gracefulShutdownTimeout == 5000
\* the values the options are constructed with in the modelled runs
MaxConnectionsOptions == {1, 1000}        \* ServerOptions.maxConnections
MaxReconnectAttemptsOptions == {1, 2}     \* ClientOptions.maxReconnectAttempts
\* ClientOptions defaults
reconnectBackoffMultiplier == <<3, 2>>     \* 1.5, as numerator and denominator

\* ------------------------------------------------------------ frames
AuthFrames ==
    [type : {"auth"}, name : Names \cup {Undefined}, token : Tokens \cup {"bad"}]
\* a request frame may lack its functionName: nothing validates the fields
RequestFrames ==
    [type : {"request"}, id : Ids, functionName : FunctionNames \cup {Undefined}]
ClientRequestFrames ==
    [type : {"client_request"}, id : Ids, functionName : {"ping"},
     targetClient : Names \cup {"nobody"}, fromClient : {Undefined, "bob"}]
ResponseFrames ==
    [type : {"response"}, id : Ids, success : {TRUE},
     data : {"result"}, error : {Undefined},
     originalFromClient : Names \cup {Undefined}]
EventFrames ==
    [type : {"event"}, eventName : EventNames, data : {[n |-> 1]}]
HeartbeatResponseFrames == {[type |-> "heartbeat_response"]}
\* a text that JSON.parse rejects, and a JSON object of no known type
InvalidFrames == {[type |-> "<invalid json>"]}
UnknownFrames == {[type |-> "bogus"]}
NoMsg == [type |-> "none"]
NoPeer == [to |-> 0]
\* The listener's branches for a socket that is not authenticated, and for an
\* auth or unknown frame on one that is, read message.type only: one frame of
\* each type stands for the type
NonAuthFrames ==
    { [type |-> "request", id |-> "1", functionName |-> "add"],
      [type |-> "client_request", id |-> "1", functionName |-> "ping",
       targetClient |-> "bob", fromClient |-> Undefined],
      [type |-> "response", id |-> "1", success |-> TRUE, data |-> "result",
       error |-> Undefined, originalFromClient |-> "alice"],
      [type |-> "event", eventName |-> "hi", data |-> [n |-> 1]],
      [type |-> "heartbeat_response"],
      [type |-> "bogus"] }
UnmatchedFrames ==
    { [type |-> "auth", name |-> "alice", token |-> "Ta"], [type |-> "bogus"] }

VARIABLES
    \* DoggyHoleServer fields
    clients,            \* Map name -> token (ClientInfo)
    connectedClients,   \* Map ws -> {name, lastHeartbeat}, in insertion order
    handlers,           \* Map functionName -> handler: the names registered
    \* per accepted socket: ws.readyState, the code of the close() that closed it,
    \* whether the 'message' listener was attached, and the closure variables
    wsState, closeCode, attached, isAuthenticated, clientName,
    \* suspended executions of the 'message' listener
    microtasks,         \* `await this.handleAuth(...)` continuations, FIFO
    draining,           \* the microtask queue is being run
    awaiting,           \* `await handler(message.data)` continuations
    \* client_request frames delivered to a callee that has not replied yet
    peerPending,
    \* the supervisor: setInterval of startHeartbeat is live, and the fields
    \* and the timer of gracefulShutdown
    serverHeartbeat, isShuttingDown, shutdownPromise, shutdownDue,
    graceTimers,        \* grace timers ever armed
    listening,          \* this.wss accepts connections
    now,                \* Date.now()
    \* what the last step was and did: its input, the frames it sent, the
    \* notifications it emitted to application code
    step, out, emitted,
    \* DoggyHoleClient fields (clientWs is its `ws`: a socket of Socks, 0 = null)
    connectionState, clientWs, requestId, pendingRequests, heartbeatInterval,
    reconnectAttempts, reconnectTimeout,
    sockState,          \* the sockets connect() created: readyState
    timers,             \* request ids whose setTimeout has neither fired nor been cleared
    intervals,          \* setInterval timers that have not been cleared
    settled,            \* per request id: the resolve / reject calls made for it
    reconnectDelay,     \* the delay the armed reconnect timer was set with, ms
    sinceArmed,         \* time passed since it was armed, ms
    afterRejection,     \* reconnects scheduled in a row, each by the close 1008 of
                        \* an open socket, since the application's last call
    \* what the client's last step was, the frames it sent and the
    \* stateChange(new, old) notifications it emitted
    cstep, cout, changes,
    \* this.options of the client and of the server
    maxReconnectAttempts, maxConnections,
    \* an event manager: its tables, the Sets of one-shot handlers, the
    \* dispatches in progress (innermost last), the number of one-shot
    \* registrations of each handler not yet served, and what its last step was
    eventHandlers, onceHandlers, sets, stack, owed, bstep

srvVars == <<clients, connectedClients, handlers, wsState, closeCode, attached,
             isAuthenticated, clientName, microtasks, draining, awaiting,
             peerPending, now, serverHeartbeat, isShuttingDown,
             shutdownPromise, shutdownDue, graceTimers, listening>>
supVars == <<serverHeartbeat, isShuttingDown, shutdownPromise,
             shutdownDue, graceTimers, listening>>
obsVars == <<step, out, emitted>>
cliVars == <<connectionState, clientWs, requestId, pendingRequests,
             heartbeatInterval, reconnectAttempts, reconnectTimeout, sockState,
             timers, intervals, settled, reconnectDelay, sinceArmed, afterRejection,
             cstep, cout, changes>>
optVars == <<maxReconnectAttempts, maxConnections>>
busVars == <<eventHandlers, onceHandlers, sets, stack, owed, bstep>>
vars == <<srvVars, obsVars, cliVars, optVars, busVars>>

\* ------------------------------------------------------------ request ids
Digit(d) == <<"0", "1", "2", "3", "4", "5", "6", "7", "8", "9">>[d + 1]

\* Number.prototype.toString
RECURSIVE toString(_)
toString(n) == IF n < 10 THEN Digit(n) ELSE toString(n \div 10) \o Digit(n % 10)

ReqIds == {toString(n) : n \in 1..MaxRequests}
NoCStep == [act |-> "init", sock |-> 0, id |-> "", code |-> 0, err |-> ""]

\* ------------------------------------------------------------ Map helpers
Idx(reg, ws) ==
    IF \E i \in 1..Len(reg) : reg[i].ws = ws
    THEN CHOOSE i \in 1..Len(reg) : reg[i].ws = ws
    ELSE 0

MapHas(reg, ws) == Idx(reg, ws) # 0

\* Map.set: a present key keeps its place, a new key goes last
MapSet(reg, ws, name, hb) ==
    LET e == [ws |-> ws, name |-> name, lastHeartbeat |-> hb] IN
    IF MapHas(reg, ws) THEN [reg EXCEPT ![Idx(reg, ws)] = e] ELSE Append(reg, e)

MapDelete(reg, ws) == SelectSeq(reg, LAMBDA e : e.ws # ws)

findClientByName(name) ==
    LET hits == SelectSeq(connectedClients, LAMBDA e : e.name = name) IN
    IF Len(hits) = 0 THEN 0 ELSE hits[1].ws

getClientName(ws) ==
    IF MapHas(connectedClients, ws)
    THEN connectedClients[Idx(connectedClients, ws)].name
    ELSE "unknown"

\* ------------------------------------------------------------ sockets
\* ws.close(code): starts the closing handshake of an OPEN socket, else nothing
CloseState(st, ws) ==
    IF st[ws] = "OPEN" THEN [st EXCEPT ![ws] = "CLOSING"] ELSE st
CloseCode(cc, st, ws, code, reason) ==
    IF st[ws] = "OPEN" THEN [cc EXCEPT ![ws] = [code |-> code, reason |-> reason]]
    ELSE cc
NotClosed == [code |-> 0, reason |-> ""]

Sent(ws, frame, by) == [to |-> ws, frame |-> frame, by |-> by]

ResponseFrame(id, success, data, error) ==
    [type |-> "response", id |-> id, success |-> success, data |-> data,
     error |-> error]

\* sendResponse: the frames it puts on ws
sendResponse(ws, id, success, data, error) ==
    IF wsState[ws] = "OPEN"
    THEN <<Sent(ws, ResponseFrame(id, success, data, error), "sendResponse")>>
    ELSE <<>>

Init ==
    /\ clients = [n \in Names |-> IF n = "alice" THEN "Ta" ELSE "Tb"]
    /\ connectedClients = <<>>
    /\ handlers = {"add"}
    /\ wsState = [w \in Conns |-> "NONE"]
    /\ closeCode = [w \in Conns |-> NotClosed]
    /\ attached = [w \in Conns |-> FALSE]
    /\ isAuthenticated = [w \in Conns |-> FALSE]
    /\ clientName = [w \in Conns |-> ""]
    /\ microtasks = <<>>
    /\ draining = FALSE
    /\ awaiting = <<>>
    /\ peerPending = {}
    /\ now = 0
    /\ serverHeartbeat = TRUE
    /\ isShuttingDown = FALSE
    /\ shutdownPromise = "null"
    /\ shutdownDue = 0
    /\ graceTimers = 0
    /\ listening = TRUE
    /\ step = [act |-> "init", ws |-> 0, msg |-> NoMsg, aux |-> NoPeer]
    /\ out = <<>>
    /\ emitted = <<>>
    /\ connectionState = "disconnected"
    /\ clientWs = 0
    /\ requestId = 0
    /\ pendingRequests = {}
    /\ heartbeatInterval = 0
    /\ reconnectAttempts = 0
    /\ reconnectTimeout = FALSE
    /\ sockState = [s \in Socks |-> "NONE"]
    /\ timers = {}
    /\ intervals = {}
    /\ settled = [id \in ReqIds |-> <<>>]
    /\ reconnectDelay = 0
    /\ sinceArmed = 0
    /\ afterRejection = 0
    /\ cstep = NoCStep
    /\ cout = <<>>
    /\ changes = <<>>
    /\ maxReconnectAttempts \in MaxReconnectAttemptsOptions
    /\ maxConnections \in MaxConnectionsOptions
    /\ eventHandlers = [n \in BusNames |-> <<>>]
    /\ onceHandlers = [n \in BusNames |-> 0]
    /\ sets = [id \in SetIds |-> <<>>]
    /\ stack = <<>>
    /\ owed = [n \in BusNames |-> [h \in BusHandlers |-> 0]]
    /\ bstep = NoBStep

\* the event loop is between macrotasks: no await continuation is queued
Idle == microtasks = <<>>

\* wss.on('connection'): sockets are accepted in the order 1, 2, ...
OnConnection(ws) ==
    /\ Idle
    /\ listening
    /\ wsState[ws] = "NONE"
    /\ \A w \in Conns : w < ws => wsState[w] # "NONE"
    /\ IF Len(connectedClients) >= maxConnections
       THEN /\ wsState' = [wsState EXCEPT ![ws] = "CLOSING"]
            /\ closeCode' = [closeCode EXCEPT ![ws] =
                                [code |-> 1013, reason |-> "Server overloaded"]]
            /\ UNCHANGED attached
       ELSE /\ wsState' = [wsState EXCEPT ![ws] = "OPEN"]
            /\ attached' = [attached EXCEPT ![ws] = TRUE]
            /\ UNCHANGED closeCode
    /\ step' = [act |-> "connection", ws |-> ws, msg |-> NoMsg, aux |-> NoPeer]
    /\ out' = <<>>
    /\ emitted' = <<>>
    /\ UNCHANGED <<cliVars, optVars, supVars, busVars>>
    /\ UNCHANGED <<clients, connectedClients, handlers, isAuthenticated,
                   clientName, microtasks, draining, awaiting, peerPending, now>>

\* a frame of ws can be handed to the 'message' listener: the socket has not
\* emitted 'close', and either the event loop is idle or the frame is in the
\* chunk of data whose frames are being emitted one after the other
Receivable(ws) ==
    /\ attached[ws]
    /\ wsState[ws] \in {"OPEN", "CLOSING"}
    /\ IF Idle THEN TRUE ELSE ~draining /\ Head(microtasks).ws = ws

Step(act, ws, msg, aux) == [act |-> act, ws |-> ws, msg |-> msg, aux |-> aux]

\* --------------------------------------------------------- 'message': auth
\* handleAuth up to its return or throw; on return the listener is suspended
\* at `await this.handleAuth(ws, message)`
handleAuth(ws, msg) ==
    LET ok == msg.name \in DOMAIN clients /\ clients[msg.name] = msg.token IN
    /\ IF ok
       THEN /\ emitted' = <<[event |-> "clientConnected", name |-> msg.name]>>
            /\ microtasks' = Append(microtasks, [ws |-> ws, name |-> msg.name])
            /\ UNCHANGED <<wsState, closeCode>>
       ELSE \* ws.close(1008, 'Invalid credentials'); the throw is caught by the
            \* listener, whose sendError finds the socket no longer OPEN
            /\ wsState' = CloseState(wsState, ws)
            /\ closeCode' = CloseCode(closeCode, wsState, ws, 1008,
                                      "Invalid credentials")
            /\ emitted' = <<>>
            /\ UNCHANGED microtasks
    /\ step' = Step(IF ok THEN "authAccepted" ELSE "authRejected", ws, msg, NoPeer)
    /\ out' = <<>>
    /\ UNCHANGED <<cliVars, optVars, supVars, busVars>>
    /\ UNCHANGED <<clients, connectedClients, handlers, attached, isAuthenticated,
                   clientName, awaiting, peerPending, now, draining>>

OnAuth(ws, msg) ==
    /\ Receivable(ws)
    /\ ~isAuthenticated[ws]
    /\ Len(microtasks) < MaxMicrotasks
    /\ handleAuth(ws, msg)

\* the listener resumes after `await this.handleAuth(...)`
AuthFinish ==
    /\ microtasks # <<>>
    /\ LET t == Head(microtasks) IN
       /\ isAuthenticated' = [isAuthenticated EXCEPT ![t.ws] = TRUE]
       /\ clientName' = [clientName EXCEPT ![t.ws] = t.name]
       /\ connectedClients' = MapSet(connectedClients, t.ws, t.name, now)
       /\ step' = Step("authFinish", t.ws, NoMsg, NoPeer)
    /\ microtasks' = Tail(microtasks)
    /\ draining' = (Tail(microtasks) # <<>>)
    /\ out' = <<>>
    /\ emitted' = <<>>
    /\ UNCHANGED <<cliVars, optVars, supVars, busVars>>
    /\ UNCHANGED <<clients, handlers, wsState, closeCode, attached, awaiting,
                   peerPending, now>>

\* ------------------------------------------- 'message': not authenticated
\* any frame but auth while isAuthenticated is false
OnUnauthenticated(ws, msg) ==
    /\ Receivable(ws)
    /\ ~isAuthenticated[ws]
    /\ wsState' = CloseState(wsState, ws)
    /\ closeCode' = CloseCode(closeCode, wsState, ws, 1008,
                              "Authentication required")
    /\ step' = Step("message", ws, msg, NoPeer)
    /\ out' = <<>>
    /\ emitted' = <<>>
    /\ UNCHANGED <<cliVars, optVars, supVars, busVars>>
    /\ UNCHANGED <<clients, connectedClients, handlers, attached, isAuthenticated,
                   clientName, microtasks, awaiting, peerPending, now, draining>>

\* an auth frame, or a frame of no known type, while isAuthenticated is true:
\* no branch of the listener matches
OnIgnored(ws, msg) ==
    /\ Receivable(ws)
    /\ isAuthenticated[ws]
    /\ step' = Step("message", ws, msg, NoPeer)
    /\ out' = <<>>
    /\ emitted' = <<>>
    /\ UNCHANGED <<cliVars, optVars, supVars, busVars>>
    /\ UNCHANGED srvVars

\* a listener whose catch block logs the error and drops the frame
OnInvalid_Drop(ws, msg) ==
    /\ Receivable(ws)
    /\ step' = Step("message", ws, msg, NoPeer)
    /\ out' = <<>>
    /\ emitted' = <<>>
    /\ UNCHANGED <<cliVars, optVars, supVars, busVars>>
    /\ UNCHANGED srvVars

\* JSON.parse throws: the catch block calls sendError
OnInvalid(ws, msg) ==
    /\ Receivable(ws)
    /\ wsState' = CloseState(wsState, ws)
    /\ closeCode' = CloseCode(closeCode, wsState, ws, 1002,
                              "Invalid message format")
    /\ step' = Step("message", ws, msg, NoPeer)
    /\ out' = <<>>
    /\ emitted' = <<>>
    /\ UNCHANGED <<cliVars, optVars, supVars, busVars>>
    /\ UNCHANGED <<clients, connectedClients, handlers, attached, isAuthenticated,
                   clientName, microtasks, awaiting, peerPending, now, draining>>

\* ------------------------------------------------------ 'message': request
HandlerNotFoundError(functionName) == <<"Handler not found: ", functionName>>

\* handleRequest without the `return` of its handler-not-found branch: the call
\* of the missing handler throws inside the try block and the catch block
\* answers a second time
handleRequest_NoReturn(ws, msg) ==
    IF msg.functionName \notin handlers
    THEN /\ out' = sendResponse(ws, msg.id, FALSE, Null,
                                HandlerNotFoundError(msg.functionName))
                    \o sendResponse(ws, msg.id, FALSE, Null, "error.message")
         /\ UNCHANGED awaiting
    ELSE /\ Len(awaiting) < MaxAwait
         /\ awaiting' = Append(awaiting, [ws |-> ws, msg |-> msg])
         /\ out' = <<>>

\* handleRequest up to its return or its await
handleRequest(ws, msg) ==
    IF msg.functionName \notin handlers
    THEN /\ out' = sendResponse(ws, msg.id, FALSE, Null,
                                HandlerNotFoundError(msg.functionName))
         /\ UNCHANGED awaiting
    ELSE \* `await handler(message.data)`
         /\ Len(awaiting) < MaxAwait
         /\ awaiting' = Append(awaiting, [ws |-> ws, msg |-> msg])
         /\ out' = <<>>

OnRequest(ws, msg) ==
    /\ Receivable(ws)
    /\ isAuthenticated[ws]
    /\ handleRequest(ws, msg)
    /\ step' = Step("message", ws, msg, NoPeer)
    /\ emitted' = <<>>
    /\ UNCHANGED <<cliVars, optVars, supVars, busVars>>
    /\ UNCHANGED <<clients, connectedClients, handlers, wsState, closeCode, attached,
                   isAuthenticated, clientName, microtasks, draining, peerPending,
                   now>>

HandlerOutcomes == {"return", "throw Error", "throw other"}

\* handleRequest from the await on, with a catch block that answers with the
\* failure and then closes the session as sendError does
RequestSettle_Closes(k, outcome) ==
    /\ Idle
    /\ k \in 1..Len(awaiting)
    /\ LET ws == awaiting[k].ws
           msg == awaiting[k].msg IN
       /\ out' = CASE outcome = "return" ->
                        sendResponse(ws, msg.id, TRUE, "result", Undefined)
                   [] outcome = "throw Error" ->
                        sendResponse(ws, msg.id, FALSE, Null, "error.message")
                   [] OTHER ->
                        sendResponse(ws, msg.id, FALSE, Null, "Unknown error")
       /\ step' = Step("settle", ws, msg, [to |-> 0, outcome |-> outcome])
       /\ wsState' = IF outcome = "return" THEN wsState ELSE CloseState(wsState, ws)
       /\ closeCode' = IF outcome = "return" THEN closeCode
                       ELSE CloseCode(closeCode, wsState, ws, 1002, "Handler error")
    /\ awaiting' = [i \in 1..(Len(awaiting) - 1) |->
                        IF i < k THEN awaiting[i] ELSE awaiting[i + 1]]
    /\ emitted' = <<>>
    /\ UNCHANGED <<cliVars, optVars, supVars, busVars>>
    /\ UNCHANGED <<clients, connectedClients, handlers, attached,
                   isAuthenticated, clientName, microtasks, draining, peerPending,
                   now>>

\* handleRequest from the await on: the handler returned, or threw / rejected
\* with an Error or with another value
RequestSettle(k, outcome) ==
    /\ Idle
    /\ k \in 1..Len(awaiting)
    /\ LET ws == awaiting[k].ws
           msg == awaiting[k].msg IN
       /\ out' = CASE outcome = "return" ->
                        sendResponse(ws, msg.id, TRUE, "result", Undefined)
                   [] outcome = "throw Error" ->
                        sendResponse(ws, msg.id, FALSE, Null, "error.message")
                   [] OTHER ->
                        sendResponse(ws, msg.id, FALSE, Null, "Unknown error")
       /\ step' = Step("settle", ws, msg, [to |-> 0, outcome |-> outcome])
    /\ awaiting' = [i \in 1..(Len(awaiting) - 1) |->
                        IF i < k THEN awaiting[i] ELSE awaiting[i + 1]]
    /\ emitted' = <<>>
    /\ UNCHANGED <<cliVars, optVars, supVars, busVars>>
    /\ UNCHANGED <<clients, connectedClients, handlers, wsState, closeCode, attached,
                   isAuthenticated, clientName, microtasks, draining, peerPending,
                   now>>

\* ----------------------------------------------- 'message': client_request
\* the reply text of a router that does not construct the error
ClientNotFoundError_Target(name) == "Target client not found"

\* new ClientNotFoundError(clientName).message: `Client not found: ${clientName}`
ClientNotFoundError(name) ==
    CASE name = "alice" -> "Client not found: alice"
      [] name = "bob" -> "Client not found: bob"
      [] name = "nobody" -> "Client not found: nobody"

handleClientRequest(ws, msg) ==
    LET targetClient == findClientByName(msg.targetClient)
        clientRequestMessage ==
            [type |-> "client_request", id |-> msg.id,
             functionName |-> msg.functionName, targetClient |-> msg.targetClient,
             fromClient |-> getClientName(ws)]
    IN
    IF targetClient = 0
    THEN /\ out' = sendResponse(ws, msg.id, FALSE, Null,
                                ClientNotFoundError(msg.targetClient))
         /\ UNCHANGED peerPending
    ELSE IF wsState[targetClient] = "OPEN"
    THEN /\ out' = <<Sent(targetClient, clientRequestMessage, "handleClientRequest")>>
         /\ peerPending' = peerPending \cup
                {[to |-> targetClient, frame |-> clientRequestMessage, caller |-> ws]}
    ELSE /\ out' = sendResponse(ws, msg.id, FALSE, Null, "Target client not available")
         /\ UNCHANGED peerPending

OnClientRequest(ws, msg) ==
    /\ Receivable(ws)
    /\ isAuthenticated[ws]
    /\ Cardinality(peerPending) < MaxPeerPending
    /\ handleClientRequest(ws, msg)
    /\ step' = Step("message", ws, msg, NoPeer)
    /\ emitted' = <<>>
    /\ UNCHANGED <<cliVars, optVars, supVars, busVars>>
    /\ UNCHANGED <<clients, connectedClients, handlers, wsState, closeCode, attached,
                   isAuthenticated, clientName, microtasks, draining, awaiting, now>>

\* ----------------------------------------------------- 'message': response
handleResponse(ws, msg) ==
    LET originalClient == findClientByName(msg.originalFromClient) IN
    IF /\ msg.originalFromClient # Undefined
       /\ originalClient # 0
       /\ wsState[originalClient] = "OPEN"
    THEN <<Sent(originalClient, msg, "handleResponse")>>
    ELSE <<>>

\* a response frame written by the peer itself
OnResponse(ws, msg) ==
    /\ Receivable(ws)
    /\ isAuthenticated[ws]
    /\ out' = handleResponse(ws, msg)
    /\ step' = Step("message", ws, msg, NoPeer)
    /\ emitted' = <<>>
    /\ UNCHANGED <<cliVars, optVars, supVars, busVars>>
    /\ UNCHANGED srvVars

\* DoggyHoleClient.handleClientRequest and sendClientResponse at the callee:
\* the response frame it sends for a client_request frame it received
ClientOutcomes == {"no handler", "return", "throw Error", "throw other"}

sendClientResponse(msg, outcome) ==
    [type |-> "response", id |-> msg.id,
     success |-> (outcome = "return"),
     data |-> IF outcome = "return" THEN "result" ELSE Null,
     error |-> CASE outcome = "return" -> Undefined
                 [] outcome = "no handler" -> "Handler not found"
                 [] outcome = "throw Error" -> "error.message"
                 [] OTHER -> "Unknown error",
     originalFromClient |-> msg.fromClient]

\* the callee's handler settles and its response reaches the server
PeerReply(p, outcome) ==
    /\ Idle
    /\ p \in peerPending
    /\ Receivable(p.to)
    /\ isAuthenticated[p.to]
    /\ LET msg == sendClientResponse(p.frame, outcome) IN
       /\ out' = handleResponse(p.to, msg)
       /\ step' = Step("peerReply", p.to, msg, p)
    /\ peerPending' = peerPending \ {p}
    /\ emitted' = <<>>
    /\ UNCHANGED <<cliVars, optVars, supVars, busVars>>
    /\ UNCHANGED <<clients, connectedClients, handlers, wsState, closeCode, attached,
                   isAuthenticated, clientName, microtasks, draining, awaiting, now>>

\* ------------------------------------------- 'message': heartbeat_response
OnHeartbeatResponse(ws, msg) ==
    /\ Receivable(ws)
    /\ isAuthenticated[ws]
    /\ connectedClients' =
          IF MapHas(connectedClients, ws)
          THEN MapSet(connectedClients, ws, getClientName(ws), now)
          ELSE connectedClients
    /\ step' = Step("message", ws, msg, NoPeer)
    /\ out' = <<>>
    /\ emitted' = <<>>
    /\ UNCHANGED <<cliVars, optVars, supVars, busVars>>
    /\ UNCHANGED <<clients, handlers, wsState, closeCode, attached, isAuthenticated,
                   clientName, microtasks, draining, awaiting, peerPending, now>>

\* -------------------------------------------------------- 'message': event
\* { ...data, fromClient }
Spread(data, fromClient) ==
    [k \in DOMAIN data \cup {"fromClient"} |->
        IF k = "fromClient" THEN fromClient ELSE data[k]]

\* DoggyHoleServerEventManager.broadcastToOthers
broadcastToOthers(eventName, data, fromClient) ==
    LET eventMessage == [type |-> "event", eventName |-> eventName,
                         data |-> Spread(data, fromClient),
                         fromClient |-> fromClient]
        to == SelectSeq(connectedClients,
                        LAMBDA e : e.name # fromClient /\ wsState[e.ws] = "OPEN")
    IN [i \in 1..Len(to) |-> Sent(to[i].ws, eventMessage, "broadcastToOthers")]

\* DoggyHoleServer.handleEvent and DoggyHoleServerEventManager.handleIncomingEvent
handleEvent(ws, msg) ==
    IF MapHas(connectedClients, ws)
    THEN broadcastToOthers(msg.eventName, msg.data, getClientName(ws))
    ELSE <<>>

\* the event branch, refreshing lastHeartbeat as for a heartbeat_response
OnEvent_Refresh(ws, msg) ==
    /\ Receivable(ws)
    /\ isAuthenticated[ws]
    /\ out' = handleEvent(ws, msg)
    /\ connectedClients' =
          IF MapHas(connectedClients, ws)
          THEN MapSet(connectedClients, ws, getClientName(ws), now)
          ELSE connectedClients
    /\ step' = Step("message", ws, msg, NoPeer)
    /\ emitted' = <<>>
    /\ UNCHANGED <<cliVars, optVars, supVars, busVars>>
    /\ UNCHANGED <<clients, handlers, wsState, closeCode, attached, isAuthenticated,
                   clientName, microtasks, draining, awaiting, peerPending, now>>

OnEvent(ws, msg) ==
    /\ Receivable(ws)
    /\ isAuthenticated[ws]
    /\ out' = handleEvent(ws, msg)
    /\ step' = Step("message", ws, msg, NoPeer)
    /\ emitted' = <<>>
    /\ UNCHANGED <<cliVars, optVars, supVars, busVars>>
    /\ UNCHANGED srvVars

\* ------------------------------------------------------------- 'close'
\* ws.on('close'): the socket is gone, whoever closed it
OnClose(ws) ==
    /\ Idle
    /\ wsState[ws] \in {"OPEN", "CLOSING"}
    /\ wsState' = [wsState EXCEPT ![ws] = "CLOSED"]
    /\ connectedClients' = IF attached[ws] THEN MapDelete(connectedClients, ws)
                           ELSE connectedClients
    /\ emitted' = IF attached[ws] /\ clientName[ws] # ""
                  THEN <<[event |-> "clientDisconnected", name |-> clientName[ws]]>>
                  ELSE <<>>
    \* the callee's side of the socket is closed too: sendClientResponse finds
    \* its ws not OPEN and sends nothing
    /\ peerPending' = {p \in peerPending : p.to # ws}
    /\ step' = Step("close", ws, NoMsg, NoPeer)
    /\ out' = <<>>
    /\ UNCHANGED <<cliVars, optVars, supVars, busVars>>
    /\ UNCHANGED <<clients, handlers, closeCode, attached, isAuthenticated,
                   clientName, microtasks, awaiting, now, draining>>

Next ==
    \/ \E ws \in Conns : OnConnection(ws)
    \/ \E ws \in Conns, msg \in AuthFrames : OnAuth(ws, msg)
    \/ AuthFinish
    \/ \E ws \in Conns, msg \in NonAuthFrames : OnUnauthenticated(ws, msg)
    \/ \E ws \in Conns, msg \in UnmatchedFrames : OnIgnored(ws, msg)
    \/ \E ws \in Conns, msg \in InvalidFrames : OnInvalid(ws, msg)
    \/ \E ws \in Conns, msg \in RequestFrames : OnRequest(ws, msg)
    \/ \E k \in 1..MaxAwait, outcome \in HandlerOutcomes : RequestSettle(k, outcome)
    \/ \E ws \in Conns, msg \in ClientRequestFrames : OnClientRequest(ws, msg)
    \/ \E ws \in Conns, msg \in ResponseFrames : OnResponse(ws, msg)
    \/ \E p \in peerPending, outcome \in ClientOutcomes : PeerReply(p, outcome)
    \/ \E ws \in Conns, msg \in HeartbeatResponseFrames : OnHeartbeatResponse(ws, msg)
    \/ \E ws \in Conns, msg \in EventFrames : OnEvent(ws, msg)
    \/ \E ws \in Conns : OnClose(ws)

\* the router under the default maxConnections; the client stays as constructed
RouterInit == Init /\ maxConnections = 1000 /\ maxReconnectAttempts = 1

Spec == RouterInit /\ [][Next]_vars

\* ======================================================================
\* The supervisor: heartbeat and graceful shutdown
\* ======================================================================
\* the grace timer is due and its callback has not run
ShutdownDue == shutdownPromise = "pending" /\ now >= shutdownDue

\* the eviction test with >= for >
Expired_AtLeast(e, t) == t - e.lastHeartbeat >= heartbeatTimeout

\* the sessions the heartbeat callback evicts at time t
Expired(e, t) == t - e.lastHeartbeat > heartbeatTimeout

\* ws.close(code, reason) on every socket of a sequence of sockets
RECURSIVE CloseAllState(_, _)
CloseAllState(st, wss) ==
    IF wss = <<>> THEN st ELSE CloseAllState(CloseState(st, Head(wss)), Tail(wss))

RECURSIVE CloseAllCode(_, _, _, _, _)
CloseAllCode(cc, st, wss, code, reason) ==
    IF wss = <<>> THEN cc
    ELSE CloseAllCode(CloseCode(cc, st, Head(wss), code, reason), st, Tail(wss),
                      code, reason)

Sockets(reg) == [i \in 1..Len(reg) |-> reg[i].ws]

\* the callback of startHeartbeat's setInterval, run at time t
startHeartbeat(t) ==
    LET gone == SelectSeq(connectedClients, LAMBDA e : Expired(e, t))
        kept == SelectSeq(connectedClients, LAMBDA e : ~Expired(e, t))
        beat == SelectSeq(kept, LAMBDA e : wsState[e.ws] = "OPEN")
    IN
    /\ wsState' = CloseAllState(wsState, Sockets(gone))
    /\ closeCode' = CloseAllCode(closeCode, wsState, Sockets(gone), 1000,
                                 "Heartbeat timeout")
    /\ connectedClients' = kept
    /\ emitted' = [i \in 1..Len(gone) |->
                      [event |-> "clientTimeout", name |-> gone[i].name]]
    /\ out' = [i \in 1..Len(beat) |->
                  Sent(beat[i].ws, [type |-> "heartbeat"], "startHeartbeat")]

\* one heartbeat interval passes and, while the interval timer is live, its
\* callback runs; a due grace timer runs first
HeartbeatTick ==
    /\ Idle
    /\ now < MaxNow
    /\ ~ShutdownDue
    /\ now' = now + heartbeatEvery
    /\ IF serverHeartbeat
       THEN startHeartbeat(now + heartbeatEvery)
       ELSE /\ out' = <<>>
            /\ emitted' = <<>>
            /\ UNCHANGED <<wsState, closeCode, connectedClients>>
    /\ step' = Step(IF serverHeartbeat THEN "heartbeat" ELSE "tick", 0, NoMsg, NoPeer)
    /\ UNCHANGED <<clients, handlers, attached, isAuthenticated, clientName,
                   microtasks, draining, awaiting, peerPending, supVars>>
    /\ UNCHANGED <<cliVars, optVars, busVars>>

\* the reasons a caller passes: none, the empty string, a text
Reasons == {Undefined, "", "maint"}

\* the frame gracefulShutdown broadcasts
shutdownMessage(reason) ==
    [type |-> "shutdown",
     reason |-> IF reason \in {Undefined, ""} THEN "Server shutdown" ELSE reason,
     gracePeriod |-> gracefulShutdownTimeout]

\* gracefulShutdown without the test of this.shutdownPromise
gracefulShutdown_NoGuard(reason) ==
    LET open == SelectSeq(connectedClients, LAMBDA e : wsState[e.ws] = "OPEN")
    IN
    /\ isShuttingDown' = TRUE
    /\ shutdownPromise' = "pending"
    /\ out' = [i \in 1..Len(open) |->
                  Sent(open[i].ws, shutdownMessage(reason), "gracefulShutdown")]
    /\ shutdownDue' = now + gracefulShutdownTimeout
    /\ graceTimers' = graceTimers + 1

\* DoggyHoleServer.gracefulShutdown up to its return
gracefulShutdown(reason) ==
    IF shutdownPromise # "null"
    THEN /\ out' = <<>>
         /\ UNCHANGED <<isShuttingDown, shutdownPromise, shutdownDue, graceTimers>>
    ELSE LET open == SelectSeq(connectedClients, LAMBDA e : wsState[e.ws] = "OPEN")
         IN
         /\ isShuttingDown' = TRUE
         /\ shutdownPromise' = "pending"
         /\ out' = [i \in 1..Len(open) |->
                       Sent(open[i].ws, shutdownMessage(reason), "gracefulShutdown")]
         /\ shutdownDue' = now + gracefulShutdownTimeout
         /\ graceTimers' = graceTimers + 1

\* the application calls gracefulShutdown(reason)
OnGracefulShutdown(reason) ==
    /\ Idle
    /\ gracefulShutdown(reason)
    /\ step' = Step("gracefulShutdown", 0, [type |-> "call", reason |-> reason],
                    NoPeer)
    /\ emitted' = <<>>
    /\ UNCHANGED <<clients, connectedClients, handlers, wsState, closeCode, attached,
                   isAuthenticated, clientName, microtasks, draining, awaiting,
                   peerPending, now, serverHeartbeat, listening>>
    /\ UNCHANGED <<cliVars, optVars, busVars>>

\* the grace timer fires: this.close(), then resolve().  close() calls
\* ws.close(1001) on the registered sockets only; wss.close() stops the
\* listener, and a socket it leaves or terminates ends by its 'close' event.
ShutdownTimerFires ==
    /\ Idle
    /\ ShutdownDue
    /\ serverHeartbeat' = FALSE
    /\ wsState' = CloseAllState(wsState, Sockets(connectedClients))
    /\ closeCode' = CloseAllCode(closeCode, wsState, Sockets(connectedClients),
                                 1001, "Server shutdown")
    /\ listening' = FALSE
    /\ emitted' = <<[event |-> "closed", name |-> ""]>>
    /\ shutdownPromise' = "resolved"
    /\ step' = Step("shutdownTimer", 0, NoMsg, NoPeer)
    /\ out' = <<>>
    /\ UNCHANGED <<clients, connectedClients, handlers, attached, isAuthenticated,
                   clientName, microtasks, draining, awaiting, peerPending, now,
                   isShuttingDown, shutdownDue, graceTimers>>
    /\ UNCHANGED <<cliVars, optVars, busVars>>

\* the registry and its supervisor; the frames the router dispatches
\* (request, client_request, response, event) change neither
SupervisorNext ==
    \/ \E ws \in Conns : OnConnection(ws)
    \/ \E ws \in Conns, msg \in AuthFrames : OnAuth(ws, msg)
    \/ AuthFinish
    \/ \E ws \in Conns, msg \in HeartbeatResponseFrames : OnUnauthenticated(ws, msg)
    \/ \E ws \in Conns, msg \in InvalidFrames : OnInvalid(ws, msg)
    \/ \E ws \in Conns, msg \in HeartbeatResponseFrames : OnHeartbeatResponse(ws, msg)
    \/ \E ws \in Conns : OnClose(ws)
    \/ HeartbeatTick
    \/ \E reason \in Reasons : OnGracefulShutdown(reason)
    \/ ShutdownTimerFires

\* the client stays as constructed
SupervisorInit == Init /\ maxReconnectAttempts = 1

SupervisorSpec == SupervisorInit /\ [][SupervisorNext]_vars

\* ======================================================================
\* The sessions over time: the router's frames and the heartbeat timer
\* ======================================================================
\* one frame of each type the router dispatches
SessionFrames ==
    [request |-> [type |-> "request", id |-> "1", functionName |-> "add"],
     client_request |-> [type |-> "client_request", id |-> "1",
                         functionName |-> "ping", targetClient |-> "bob",
                         fromClient |-> Undefined],
     response |-> [type |-> "response", id |-> "1", success |-> TRUE,
                   data |-> "result", error |-> Undefined,
                   originalFromClient |-> "alice"],
     event |-> [type |-> "event", eventName |-> "hi", data |-> [n |-> 1]]]

SessionAuthFrames ==
    {[type |-> "auth", name |-> n, token |-> clients[n]] : n \in Names}

SessionNext ==
    \/ \E ws \in Conns : OnConnection(ws)
    \/ \E ws \in Conns, msg \in SessionAuthFrames : OnAuth(ws, msg)
    \/ AuthFinish
    \/ \E ws \in Conns : OnRequest(ws, SessionFrames.request)
    \/ \E k \in 1..MaxAwait : RequestSettle(k, "return")
    \/ \E ws \in Conns : OnClientRequest(ws, SessionFrames.client_request)
    \/ \E ws \in Conns : OnResponse(ws, SessionFrames.response)
    \/ \E p \in peerPending : PeerReply(p, "resolve")
    \/ \E ws \in Conns, msg \in HeartbeatResponseFrames : OnHeartbeatResponse(ws, msg)
    \/ \E ws \in Conns : OnEvent(ws, SessionFrames.event)
    \/ \E ws \in Conns : OnClose(ws)
    \/ HeartbeatTick

SessionInit == Init /\ maxConnections = 1000 /\ maxReconnectAttempts = 1

SessionSpec == SessionInit /\ [][SessionNext]_vars

\* ======================================================================
\* The credentials: setUser and removeUser
\* ======================================================================
\* application code runs in a task of its own or in a listener of the
\* notification the last step emitted ('clientConnected' is emitted by
\* handleAuth before the session is registered)
AppRuns == IF Idle THEN TRUE ELSE step.act = "authAccepted"

Call(method, name) == [type |-> "call", method |-> method, name |-> name]

\* DoggyHoleServer.setUser
setUser(name, token) ==
    clients' = [n \in DOMAIN clients \cup {name} |->
                   IF n = name THEN token ELSE clients[n]]

OnSetUser(name, token) ==
    /\ AppRuns
    /\ setUser(name, token)
    /\ step' = Step("setUser", 0, Call("setUser", name), NoPeer)
    /\ out' = <<>>
    /\ emitted' = <<>>
    /\ UNCHANGED <<cliVars, optVars, supVars, busVars>>
    /\ UNCHANGED <<connectedClients, handlers, wsState, closeCode, attached,
                   isAuthenticated, clientName, microtasks, draining, awaiting,
                   peerPending, now>>

\* DoggyHoleServer.removeUser: the loop stops at the first session of the name
removeUser(name) ==
    LET ws == findClientByName(name) IN
    /\ clients' = [n \in DOMAIN clients \ {name} |-> clients[n]]
    /\ IF ws = 0
       THEN UNCHANGED <<wsState, closeCode, connectedClients>>
       ELSE /\ wsState' = CloseState(wsState, ws)
            /\ closeCode' = CloseCode(closeCode, wsState, ws, 1000,
                                      "Client removed from server")
            /\ connectedClients' = MapDelete(connectedClients, ws)

OnRemoveUser(name) ==
    /\ AppRuns
    /\ removeUser(name)
    /\ step' = Step("removeUser", 0, Call("removeUser", name), NoPeer)
    /\ out' = <<>>
    /\ emitted' = <<>>
    /\ UNCHANGED <<cliVars, optVars, supVars, busVars>>
    /\ UNCHANGED <<handlers, attached, isAuthenticated, clientName, microtasks,
                   draining, awaiting, peerPending, now>>

\* DoggyHoleServerEventManager.broadcastToAll
broadcastToAll(eventName, data, fromClient) ==
    LET eventMessage == [type |-> "event", eventName |-> eventName,
                         data |-> Spread(data, fromClient)]
        to == SelectSeq(connectedClients, LAMBDA e : wsState[e.ws] = "OPEN")
    IN [i \in 1..Len(to) |-> Sent(to[i].ws, eventMessage, "broadcastToAll")]

\* the application calls server.event.broadcast(eventName, data)
OnBroadcast(eventName) ==
    /\ AppRuns
    /\ out' = broadcastToAll(eventName, [n |-> 1], "server")
    /\ step' = Step("broadcast", 0, Call("broadcast", eventName), NoPeer)
    /\ emitted' = <<>>
    /\ UNCHANGED <<cliVars, optVars, supVars, busVars>>
    /\ UNCHANGED <<clients, connectedClients, handlers, wsState, closeCode, attached,
                   isAuthenticated, clientName, microtasks, draining, awaiting,
                   peerPending, now>>

\* the registry and the credentials
RegistryNext ==
    \/ \E ws \in Conns : OnConnection(ws)
    \/ \E ws \in Conns, msg \in AuthFrames : OnAuth(ws, msg)
    \/ AuthFinish
    \/ \E ws \in Conns : OnClose(ws)
    \/ \E name \in Names, token \in Tokens : OnSetUser(name, token)
    \/ \E name \in Names : OnRemoveUser(name)
    \/ \E eventName \in {"userJoined"} : OnBroadcast(eventName)

RegistryInit == Init /\ maxConnections = 1000 /\ maxReconnectAttempts = 1

RegistrySpec == RegistryInit /\ [][RegistryNext]_vars

\* ======================================================================
\* The event bus: DoggyHoleClientEventManager and DoggyHoleServerEventManager
\* ======================================================================
\* Both classes keep the same two tables and dispatch alike (the client in
\* handleIncomingEvent, the server in emit).  A Set of eventHandlers is made
\* by the first on() of a name and never replaced; a Set of onceHandlers is
\* an object of `sets`, since a dispatch holds on to the one it read.
BStep(act, n, h, e) == [act |-> act, name |-> n, handler |-> h, error |-> e]

\* Set.prototype.add on an insertion-ordered Set
SetAdd(s, h) == IF \E k \in 1..Len(s) : s[k] = h THEN s ELSE Append(s, h)
Members(s) == {s[k] : k \in 1..Len(s)}

Top == stack[Len(stack)]

\* the caller of a bus method: the application between dispatches, or the
\* handler that is running
CanCall == IF stack = <<>> THEN TRUE ELSE Top.running # "" /\ Top.ops < MaxOps
Charged == IF stack = <<>> THEN stack
           ELSE [stack EXCEPT ![Len(stack)].ops = @ + 1]

\* the Sets of onceHandlers a dispatch or the table still refers to
Referenced ==
    {onceHandlers[n] : n \in BusNames} \cup
    {stack[k].once : k \in {j \in 1..Len(stack) : stack[j].phase = "on"}}

\* on(eventName, handler)
on(n, h) == eventHandlers' = [eventHandlers EXCEPT ![n] = SetAdd(@, h)]

CallOn(n, h) ==
    /\ CanCall
    /\ on(n, h)
    /\ stack' = Charged
    /\ bstep' = BStep("on", n, h, "")
    /\ UNCHANGED <<onceHandlers, sets, owed>>
    /\ UNCHANGED <<srvVars, obsVars, cliVars, optVars>>

\* once(eventName, handler)
once(n, h) ==
    IF onceHandlers[n] = 0
    THEN LET id == CHOOSE i \in SetIds : i \notin Referenced IN
         /\ onceHandlers' = [onceHandlers EXCEPT ![n] = id]
         /\ sets' = [sets EXCEPT ![id] = <<h>>]
    ELSE /\ sets' = [sets EXCEPT ![onceHandlers[n]] = SetAdd(@, h)]
         /\ UNCHANGED onceHandlers

CallOnce(n, h) ==
    /\ CanCall
    /\ owed[n][h] < MaxOwed
    /\ once(n, h)
    \* a registration is made unless the Set of the table already holds h
    /\ owed' = IF onceHandlers[n] # 0 /\ h \in Members(sets[onceHandlers[n]])
               THEN owed
               ELSE [owed EXCEPT ![n][h] = @ + 1]
    /\ stack' = Charged
    /\ bstep' = BStep("once", n, h, "")
    /\ UNCHANGED eventHandlers
    /\ UNCHANGED <<srvVars, obsVars, cliVars, optVars>>

\* Set.prototype.delete
SetDelete(s, h) == SelectSeq(s, LAMBDA x : x # h)

\* off(eventName, handler): handler leaves the one-shot Set of the name, and
\* a Set left empty leaves the table
off(n, h) ==
    IF onceHandlers[n] # 0
    THEN LET onceSet == SetDelete(sets[onceHandlers[n]], h) IN
         /\ sets' = [sets EXCEPT ![onceHandlers[n]] = onceSet]
         /\ onceHandlers' = IF onceSet = <<>>
                            THEN [onceHandlers EXCEPT ![n] = 0]
                            ELSE onceHandlers
    ELSE UNCHANGED <<onceHandlers, sets>>

\* off(eventName, handler) is called for a handler that has no persistent
\* subscription to the name, so that eventHandlers stays as it is
CallOff(n, h) ==
    /\ CanCall
    /\ h \notin Members(eventHandlers[n])
    /\ off(n, h)
    \* a registration in the table is withdrawn, and the dispatches that
    \* hold the same Set no longer have its call to make
    /\ owed' = IF onceHandlers[n] # 0 /\ h \in Members(sets[onceHandlers[n]])
               THEN [owed EXCEPT ![n][h] = IF @ > 0 THEN @ - 1 ELSE 0]
               ELSE owed
    /\ stack' = [k \in 1..Len(stack) |->
                   LET fr == Charged[k] IN
                   IF /\ fr.name = n /\ fr.phase = "on"
                      /\ fr.once # 0 /\ fr.once = onceHandlers[n]
                   THEN [fr EXCEPT !.due = @ \ {h}]
                   ELSE fr]
    /\ bstep' = BStep("off", n, h, "")
    /\ UNCHANGED eventHandlers
    /\ UNCHANGED <<srvVars, obsVars, cliVars, optVars>>

\* handleIncomingEvent / emit is entered: it reads both tables
CallEmit(n) ==
    /\ CanCall
    /\ Len(stack) < MaxDepth
    /\ stack' = Append(Charged,
                       [name |-> n,
                        handlers |-> eventHandlers[n] # <<>>,
                        once |-> onceHandlers[n],
                        phase |-> "on", i |-> 0,
                        handlersToRemove |-> <<>>,
                        running |-> "", ops |-> 0,
                        size |-> Len(eventHandlers[n]),
                        invoked |-> <<>>, threw |-> FALSE,
                        due |-> IF onceHandlers[n] = 0 THEN {}
                                ELSE Members(sets[onceHandlers[n]])])
    /\ bstep' = BStep("emit", n, "", "")
    /\ UNCHANGED <<eventHandlers, onceHandlers, sets, owed>>
    /\ UNCHANGED <<srvVars, obsVars, cliVars, optVars>>

\* handlers.forEach: the next handler of the Set is called
NextHandler ==
    /\ stack # <<>>
    /\ Top.running = "" /\ Top.phase = "on"
    /\ Top.handlers /\ Top.i < Len(eventHandlers[Top.name])
    /\ LET h == eventHandlers[Top.name][Top.i + 1] IN
       /\ stack' = [stack EXCEPT ![Len(stack)].i = @ + 1,
                                 ![Len(stack)].running = h,
                                 ![Len(stack)].invoked = Append(@, h)]
       /\ bstep' = BStep("call", Top.name, h, "")
    /\ UNCHANGED <<eventHandlers, onceHandlers, sets, owed>>
    /\ UNCHANGED <<srvVars, obsVars, cliVars, optVars>>

\* this.onceHandlers.delete(eventName): whatever Set the entry holds
DeleteOnce(n, id) == [onceHandlers EXCEPT ![n] = 0]

\* `if (onceHandlers)`: Array.from, clear(), this.onceHandlers.delete(name)
TakeOnce ==
    /\ stack # <<>>
    /\ Top.running = "" /\ Top.phase = "on"
    /\ ~(Top.handlers /\ Top.i < Len(eventHandlers[Top.name]))
    /\ IF Top.once # 0
       THEN /\ stack' = [stack EXCEPT ![Len(stack)].phase = "once",
                                      ![Len(stack)].i = 0,
                                      ![Len(stack)].handlersToRemove = sets[Top.once]]
            /\ onceHandlers' = DeleteOnce(Top.name, Top.once)
            \* the Set that was cleared, and a Set nothing refers to any more
            /\ sets' = [id \in SetIds |->
                          IF \/ id = Top.once
                             \/ /\ id = onceHandlers[Top.name]
                                /\ \A k \in 1..(Len(stack) - 1) :
                                      stack[k].phase = "on" => stack[k].once # id
                          THEN <<>> ELSE sets[id]]
       ELSE /\ stack' = [stack EXCEPT ![Len(stack)].phase = "once",
                                      ![Len(stack)].i = 0]
            /\ UNCHANGED <<onceHandlers, sets>>
    /\ bstep' = BStep("takeOnce", Top.name, "", "")
    /\ UNCHANGED <<eventHandlers, owed>>
    /\ UNCHANGED <<srvVars, obsVars, cliVars, optVars>>

\* handlersToRemove.forEach: the next one-shot handler is called
NextOnceHandler ==
    /\ stack # <<>>
    /\ Top.running = "" /\ Top.phase = "once"
    /\ Top.i < Len(Top.handlersToRemove)
    /\ LET h == Top.handlersToRemove[Top.i + 1]
           n == Top.name
       IN
       /\ stack' = [k \in 1..Len(stack) |->
                      IF k = Len(stack)
                      THEN [stack[k] EXCEPT !.i = @ + 1, !.running = h,
                                            !.invoked = Append(@, h),
                                            !.due = @ \ {h}]
                      ELSE IF stack[k].name = n
                           THEN [stack[k] EXCEPT !.due = @ \ {h}]
                           ELSE stack[k]]
       /\ owed' = [owed EXCEPT ![n][h] = IF @ > 0 THEN @ - 1 ELSE 0]
       /\ bstep' = BStep("callOnce", n, h, "")
    /\ UNCHANGED <<eventHandlers, onceHandlers, sets>>
    /\ UNCHANGED <<srvVars, obsVars, cliVars, optVars>>

\* the running handler returns
HandlerReturns ==
    /\ stack # <<>>
    /\ Top.running # ""
    /\ stack' = [stack EXCEPT ![Len(stack)].running = "", ![Len(stack)].ops = 0]
    /\ bstep' = BStep("return", Top.name, Top.running, "")
    /\ UNCHANGED <<eventHandlers, onceHandlers, sets, owed>>
    /\ UNCHANGED <<srvVars, obsVars, cliVars, optVars>>

\* an exception that leaves the dispatch: every dispatch in progress is unwound
Caught_Not(e) == <<>>

\* the catch of the forEach callback: the dispatch goes on
Caught(e) == [stack EXCEPT ![Len(stack)].running = "", ![Len(stack)].ops = 0,
                           ![Len(stack)].threw = TRUE]

\* the running handler throws: internalEmitter.emit('handlerError', eventName,
\* error, handler)
HandlerThrows(e) ==
    /\ stack # <<>>
    /\ Top.running # ""
    /\ stack' = Caught(e)
    /\ bstep' = BStep("handlerError", Top.name, Top.running, e)
    /\ UNCHANGED <<eventHandlers, onceHandlers, sets, owed>>
    /\ UNCHANGED <<srvVars, obsVars, cliVars, optVars>>

\* both loops are done: eventReceived / eventEmitted, and the dispatch
\* returns to its caller
EmitReturns ==
    /\ stack # <<>>
    /\ Top.running = "" /\ Top.phase = "once"
    /\ Top.i >= Len(Top.handlersToRemove)
    /\ stack' = SubSeq(stack, 1, Len(stack) - 1)
    /\ bstep' = BStep("emitted", Top.name, "", "")
    /\ UNCHANGED <<eventHandlers, onceHandlers, sets, owed>>
    /\ UNCHANGED <<srvVars, obsVars, cliVars, optVars>>

BusNext ==
    \/ \E n \in BusNames, h \in BusHandlers : CallOn(n, h)
    \/ \E n \in BusNames, h \in BusHandlers : CallOnce(n, h)
    \/ \E n \in BusNames, h \in BusHandlers : CallOff(n, h)
    \/ \E n \in BusNames : CallEmit(n)
    \/ NextHandler
    \/ TakeOnce
    \/ NextOnceHandler
    \/ HandlerReturns
    \/ \E e \in Errors : HandlerThrows(e)
    \/ EmitReturns

\* the server and the client stay as constructed
BusInit == Init /\ maxConnections = 1000 /\ maxReconnectAttempts = 1

BusSpec == BusInit /\ [][BusNext]_vars

\* ======================================================================
\* DoggyHoleClient
\* ======================================================================
\* The client's sockets.  readyState is CONNECTING, OPEN, CLOSING or CLOSED;
\* ABORTING is the CLOSING of a socket whose handshake never completed (close()
\* while CONNECTING, or a failed connection): its 'close' event reports 1006.
readyState(st, s) == IF st[s] = "ABORTING" THEN "CLOSING" ELSE st[s]

CloseCodes == {1000, 1001, 1006, 1008}

\* frames the server side may put on a client socket
ClientResponseFrames ==
    [type : {"response"}, id : ReqIds \cup {toString(MaxRequests + 1)},
     success : BOOLEAN]

CStep(act, s, id, code) ==
    [act |-> act, sock |-> s, id |-> id, code |-> code, err |-> ""]

isConnected == connectionState = "connected"

\* setConnectionState: the stateChange(new, old) it emits
setConnectionState(old, new) ==
    IF old # new THEN <<[new |-> new, old |-> old]>> ELSE <<>>

Min(a, b) == IF a < b THEN a ELSE b

RECURSIVE Pow(_, _)
Pow(b, e) == IF e = 0 THEN 1 ELSE b * Pow(b, e - 1)

\* the delay with the exponent n instead of n - 1
delay_ExponentN(n) ==
    Min((1000 * Pow(reconnectBackoffMultiplier[1], n))
            \div Pow(reconnectBackoffMultiplier[2], n),
        30000)

\* scheduleReconnect's delay for attempt n (reconnectAttempts after its
\* increment): Math.min(1000 * Math.pow(multiplier, n - 1), 30000).  The
\* quotient is exact for the multiplier 1.5 and n <= 4.
delay(n) ==
    Min((1000 * Pow(reconnectBackoffMultiplier[1], n - 1))
            \div Pow(reconnectBackoffMultiplier[2], n - 1),
        30000)

\* the step of the model's clock, ms
TimeStep == 1000

\* clearTimeout(this.reconnectTimeout)
TimerCleared ==
    /\ reconnectTimeout' = FALSE
    /\ reconnectDelay' = 0
    /\ sinceArmed' = 0

\* connect(): returns at once when connected or connecting, else creates the
\* next socket
connect ==
    IF connectionState \in {"connected", "connecting"}
    THEN /\ changes' = <<>>
         /\ UNCHANGED <<connectionState, clientWs, sockState>>
    ELSE \E s \in Socks :
            /\ sockState[s] = "NONE"
            /\ \A t \in Socks : t < s => sockState[t] # "NONE"
            /\ connectionState' = "connecting"
            /\ changes' = setConnectionState(connectionState, "connecting")
            /\ clientWs' = s
            /\ sockState' = [sockState EXCEPT ![s] = "CONNECTING"]

\* the application calls connect()
ClientConnect ==
    /\ connect
    /\ cstep' = CStep("connect", 0, "", 0)
    /\ cout' = <<>>
    /\ afterRejection' = 0
    /\ UNCHANGED <<requestId, pendingRequests, heartbeatInterval, reconnectAttempts,
                   reconnectTimeout, timers, intervals, settled, reconnectDelay,
                   sinceArmed>>
    /\ UNCHANGED <<srvVars, obsVars, optVars, busVars>>

\* the timer of scheduleReconnect fires: this.connect()
ReconnectTimerFires ==
    /\ reconnectTimeout
    /\ sinceArmed >= reconnectDelay
    /\ TimerCleared
    /\ connect
    /\ cstep' = CStep("reconnectTimer", 0, "", 0)
    /\ UNCHANGED afterRejection
    /\ cout' = <<>>
    /\ UNCHANGED <<requestId, pendingRequests, heartbeatInterval, reconnectAttempts,
                   timers, intervals, settled>>
    /\ UNCHANGED <<srvVars, obsVars, optVars, busVars>>

\* authenticate(): the auth frame goes on this.ws, if that socket is OPEN
authenticate(st) ==
    IF clientWs # 0 /\ readyState(st, clientWs) = "OPEN"
    THEN <<[sock |-> clientWs,
            frame |-> [type |-> "auth", name |-> "alice", token |-> "Ta"]]>>
    ELSE <<>>

\* the 'open' handler with `this.requestId = 0` added
ClientOnOpen_Reset(s) ==
    /\ sockState[s] = "CONNECTING"
    /\ sockState' = [sockState EXCEPT ![s] = "OPEN"]
    /\ cout' = authenticate(sockState')
    /\ heartbeatInterval' = s
    /\ intervals' = intervals \cup {s}
    /\ reconnectAttempts' = 0
    /\ requestId' = 0
    /\ connectionState' = "connected"
    /\ changes' = setConnectionState(connectionState, "connected")
    /\ cstep' = CStep("open", s, "", 0)
    /\ UNCHANGED <<clientWs, pendingRequests, reconnectTimeout, timers,
                   settled, reconnectDelay, sinceArmed, afterRejection>>
    /\ UNCHANGED <<srvVars, obsVars, optVars, busVars>>

\* ws.on('open') of socket s
ClientOnOpen(s) ==
    /\ sockState[s] = "CONNECTING"
    /\ sockState' = [sockState EXCEPT ![s] = "OPEN"]
    /\ cout' = authenticate(sockState')
    \* startHeartbeat: a new interval, whose handle replaces the field's value
    /\ heartbeatInterval' = s
    /\ intervals' = intervals \cup {s}
    /\ reconnectAttempts' = 0
    /\ connectionState' = "connected"
    /\ changes' = setConnectionState(connectionState, "connected")
    /\ cstep' = CStep("open", s, "", 0)
    /\ UNCHANGED <<clientWs, requestId, pendingRequests, reconnectTimeout, timers,
                   settled, reconnectDelay, sinceArmed, afterRejection>>
    /\ UNCHANGED <<srvVars, obsVars, optVars, busVars>>

\* handleResponse without the test `if (request)`
clientHandleResponse_NoTest(msg) ==
    /\ timers' = timers \ {msg.id}
    /\ pendingRequests' = pendingRequests \ {msg.id}
    /\ settled' = [id \in ReqIds |->
                      IF id = msg.id
                      THEN Append(settled[id], IF msg.success THEN "resolve"
                                               ELSE "REQUEST_ERROR")
                      ELSE settled[id]]

\* handleResponse without `this.pendingRequests.delete(message.id)`
clientHandleResponse_NoDelete(msg) ==
    IF msg.id \in pendingRequests
    THEN /\ timers' = timers \ {msg.id}
         /\ UNCHANGED pendingRequests
         /\ settled' = [settled EXCEPT ![msg.id] =
                           Append(@, IF msg.success THEN "resolve"
                                     ELSE "REQUEST_ERROR")]
    ELSE UNCHANGED <<timers, pendingRequests, settled>>

\* DoggyHoleClient.handleResponse
clientHandleResponse(msg) ==
    IF msg.id \in pendingRequests
    THEN /\ timers' = timers \ {msg.id}
         /\ pendingRequests' = pendingRequests \ {msg.id}
         /\ settled' = [settled EXCEPT ![msg.id] =
                           Append(@, IF msg.success THEN "resolve"
                                     ELSE "REQUEST_ERROR")]
    ELSE UNCHANGED <<timers, pendingRequests, settled>>

\* ws.on('message') of socket s with a response frame
ClientOnResponse(s, msg) ==
    /\ sockState[s] \in {"OPEN", "CLOSING"}
    /\ clientHandleResponse(msg)
    /\ cstep' = CStep("response", s, msg.id, 0)
    /\ cout' = <<>>
    /\ changes' = <<>>
    /\ UNCHANGED <<connectionState, clientWs, requestId, heartbeatInterval,
                   reconnectAttempts, reconnectTimeout, sockState, intervals,
                   reconnectDelay, sinceArmed, afterRejection>>
    /\ UNCHANGED <<srvVars, obsVars, optVars, busVars>>

\* cleanup() without the loop that rejects the pending requests
cleanup_NoReject ==
    /\ heartbeatInterval' = 0
    /\ intervals' = intervals \ {heartbeatInterval}
    /\ timers' = timers \ pendingRequests
    /\ pendingRequests' = {}
    /\ UNCHANGED settled

\* cleanup(), but for this.reconnectTimeout, which its callers go on to set
cleanup ==
    /\ heartbeatInterval' = 0
    /\ intervals' = intervals \ {heartbeatInterval}
    /\ timers' = timers \ pendingRequests
    /\ settled' = [id \in ReqIds |->
                      IF id \in pendingRequests
                      THEN Append(settled[id], "ConnectionError: Connection closed")
                      ELSE settled[id]]
    /\ pendingRequests' = {}

isClientShuttingDown(state) == state = "disconnecting"

\* the close handler's condition with the test of code 1001 left out
shouldReconnect_Not1001(code) ==
    /\ code # 1000
    /\ reconnectAttempts < maxReconnectAttempts
    /\ ~isClientShuttingDown("disconnected")

\* the close handler's condition for scheduleReconnect; it is evaluated after
\* setConnectionState(DISCONNECTED)
shouldReconnect(code) ==
    /\ code # 1000 /\ code # 1001
    /\ reconnectAttempts < maxReconnectAttempts
    /\ ~isClientShuttingDown("disconnected")

\* ws.on('close') of socket s: cleanup, Disconnected, and scheduleReconnect
\* unless the code is 1000 or 1001 or the attempts are used up
ClientOnClose(s, code) ==
    /\ sockState[s] \in {"CONNECTING", "OPEN", "CLOSING", "ABORTING"}
    /\ sockState[s] \in {"CONNECTING", "ABORTING"} => code = 1006
    /\ sockState' = [sockState EXCEPT ![s] = "CLOSED"]
    /\ cleanup
    /\ IF shouldReconnect(code)
       THEN \* scheduleReconnect
            /\ reconnectAttempts' = reconnectAttempts + 1
            /\ connectionState' = "reconnecting"
            /\ changes' = setConnectionState(connectionState, "disconnected")
                           \o setConnectionState("disconnected", "reconnecting")
            /\ reconnectTimeout' = TRUE
            /\ reconnectDelay' = delay(reconnectAttempts + 1)
            /\ sinceArmed' = 0
       ELSE /\ connectionState' = "disconnected"
            /\ changes' = setConnectionState(connectionState, "disconnected")
            /\ TimerCleared
            /\ UNCHANGED reconnectAttempts
    /\ cstep' = CStep("close", s, "", code)
    /\ afterRejection' = IF code = 1008 /\ sockState[s] = "OPEN"
                         THEN IF shouldReconnect(code) THEN afterRejection + 1
                              ELSE afterRejection
                         ELSE 0
    /\ cout' = <<>>
    /\ UNCHANGED <<clientWs, requestId>>
    /\ UNCHANGED <<srvVars, obsVars, optVars, busVars>>

\* ws.on('error') of socket s; its 'close' event follows
ClientOnError(s) ==
    /\ sockState[s] \in {"CONNECTING", "OPEN"}
    /\ sockState' = [sockState EXCEPT ![s] =
                        IF @ = "CONNECTING" THEN "ABORTING" ELSE "CLOSING"]
    /\ cleanup
    /\ TimerCleared
    /\ connectionState' = "disconnected"
    /\ changes' = setConnectionState(connectionState, "disconnected")
    /\ cstep' = CStep("error", s, "", 0)
    /\ afterRejection' = 0
    /\ cout' = <<>>
    /\ UNCHANGED <<clientWs, requestId, reconnectAttempts>>
    /\ UNCHANGED <<srvVars, obsVars, optVars, busVars>>

\* the timer set by request() / requestClient() for id fires, but its callback
\* rejects nothing
RequestTimeout_NoReject(id) ==
    /\ id \in timers
    /\ timers' = timers \ {id}
    /\ UNCHANGED <<pendingRequests, settled>>
    /\ cstep' = CStep("timeout", 0, id, 0)
    /\ cout' = <<>>
    /\ changes' = <<>>
    /\ UNCHANGED <<connectionState, clientWs, requestId, heartbeatInterval,
                   reconnectAttempts, reconnectTimeout, sockState, intervals,
                   reconnectDelay, sinceArmed, afterRejection>>
    /\ UNCHANGED <<srvVars, obsVars, optVars, busVars>>

\* the timer set by request() / requestClient() for id fires
RequestTimeout(id) ==
    /\ id \in timers
    /\ timers' = timers \ {id}
    /\ IF id \in pendingRequests
       THEN /\ pendingRequests' = pendingRequests \ {id}
            /\ settled' = [settled EXCEPT ![id] = Append(@, "TimeoutError")]
       ELSE UNCHANGED <<pendingRequests, settled>>
    /\ cstep' = CStep("timeout", 0, id, 0)
    /\ cout' = <<>>
    /\ changes' = <<>>
    /\ UNCHANGED <<connectionState, clientWs, requestId, heartbeatInterval,
                   reconnectAttempts, reconnectTimeout, sockState, intervals,
                   reconnectDelay, sinceArmed, afterRejection>>
    /\ UNCHANGED <<srvVars, obsVars, optVars, busVars>>

\* the body of request() without the test of isConnected()
sendRequest_NoGuard(act, frame) ==
    /\ requestId < MaxRequests
    /\ LET id == toString(requestId + 1)
           canSend == clientWs # 0 /\ readyState(sockState, clientWs) # "CONNECTING"
       IN
       /\ requestId' = requestId + 1
       /\ timers' = timers \cup {id}
       /\ pendingRequests' = pendingRequests \cup {id}
       /\ settled' = IF canSend THEN settled
                     ELSE [settled EXCEPT ![id] = Append(@, "send threw")]
       /\ cout' = IF canSend /\ readyState(sockState, clientWs) = "OPEN"
                  THEN <<[sock |-> clientWs, frame |-> [frame EXCEPT !.id = id]]>>
                  ELSE <<>>
       /\ cstep' = CStep(act, clientWs, id, 0)

\* the body of request() and of requestClient(): reject at once when not
\* connected; else take the next id, arm the timer, store the entry and send.
\* `this.ws!.send` throws on a null or CONNECTING socket, which rejects the
\* promise from inside its executor, and drops the frame on a closing one.
sendRequest(act, frame) ==
    IF ~isConnected
    THEN /\ cstep' = [CStep(act, 0, "", 0) EXCEPT
                          !.err = "ConnectionError: Client not connected"]
         /\ cout' = <<>>
         /\ UNCHANGED <<requestId, pendingRequests, timers, settled>>
    ELSE /\ requestId < MaxRequests
         /\ LET id == toString(requestId + 1)
                canSend == clientWs # 0 /\ readyState(sockState, clientWs) # "CONNECTING"
            IN
            /\ requestId' = requestId + 1
            /\ timers' = timers \cup {id}
            /\ pendingRequests' = pendingRequests \cup {id}
            /\ settled' = IF canSend THEN settled
                          ELSE [settled EXCEPT ![id] = Append(@, "send threw")]
            /\ cout' = IF canSend /\ readyState(sockState, clientWs) = "OPEN"
                       THEN <<[sock |-> clientWs, frame |-> [frame EXCEPT !.id = id]]>>
                       ELSE <<>>
            /\ cstep' = CStep(act, clientWs, id, 0)

\* the application calls request(functionName, data)
request(functionName) ==
    /\ sendRequest("request",
                   [type |-> "request", id |-> "", functionName |-> functionName])
    /\ changes' = <<>>
    /\ UNCHANGED <<connectionState, clientWs, heartbeatInterval, reconnectAttempts,
                   reconnectTimeout, sockState, intervals, reconnectDelay,
                   sinceArmed, afterRejection>>
    /\ UNCHANGED <<srvVars, obsVars, optVars, busVars>>

\* the application calls requestClient(targetClient, functionName, data)
requestClient(targetClient, functionName) ==
    /\ sendRequest("requestClient",
                   [type |-> "client_request", id |-> "",
                    functionName |-> functionName, targetClient |-> targetClient,
                    fromClient |-> "alice"])
    /\ changes' = <<>>
    /\ UNCHANGED <<connectionState, clientWs, heartbeatInterval, reconnectAttempts,
                   reconnectTimeout, sockState, intervals, reconnectDelay,
                   sinceArmed, afterRejection>>
    /\ UNCHANGED <<srvVars, obsVars, optVars, busVars>>

\* the application calls disconnect(): ws.close(1000) on this.ws
disconnect ==
    /\ cleanup
    /\ TimerCleared
    /\ sockState' = IF clientWs = 0 THEN sockState
                    ELSE [sockState EXCEPT ![clientWs] =
                             CASE @ = "OPEN" -> "CLOSING"
                               [] @ = "CONNECTING" -> "ABORTING"
                               [] OTHER -> @]
    /\ clientWs' = 0
    /\ connectionState' = "disconnected"
    /\ changes' = setConnectionState(connectionState, "disconnecting")
                   \o setConnectionState("disconnecting", "disconnected")
    /\ cstep' = CStep("disconnect", clientWs, "", 0)
    /\ afterRejection' = 0
    /\ cout' = <<>>
    /\ UNCHANGED <<requestId, reconnectAttempts>>
    /\ UNCHANGED <<srvVars, obsVars, optVars, busVars>>

\* time passes while the reconnect timer is armed and not yet due
Advance ==
    /\ reconnectTimeout
    /\ sinceArmed < reconnectDelay
    /\ sinceArmed' = sinceArmed + TimeStep
    /\ cstep' = CStep("advance", 0, "", 0)
    /\ cout' = <<>>
    /\ changes' = <<>>
    /\ UNCHANGED <<connectionState, clientWs, requestId, pendingRequests,
                   heartbeatInterval, reconnectAttempts, reconnectTimeout, sockState,
                   timers, intervals, settled, reconnectDelay, afterRejection>>
    /\ UNCHANGED <<srvVars, obsVars, optVars, busVars>>

\* sendEvent without the test of isConnected(): `if (this.ws)`
sendEvent_NoStateTest(eventName) ==
    IF clientWs # 0
    THEN LET rs == readyState(sockState, clientWs) IN
         /\ cout' = IF rs = "OPEN"
                    THEN <<[sock |-> clientWs,
                            frame |-> [type |-> "event", eventName |-> eventName,
                                       data |-> [n |-> 1]]]>>
                    ELSE <<>>
         /\ cstep' = [CStep("sendEvent", clientWs, "", 0) EXCEPT
                          !.err = IF rs = "CONNECTING" THEN "send threw" ELSE ""]
    ELSE /\ cout' = <<>>
         /\ cstep' = CStep("sendEvent", 0, "", 0)

\* DoggyHoleClient.sendEvent up to its return or throw: the frame goes on
\* this.ws when the client is connected, and `this.ws.send` throws on a
\* CONNECTING socket and drops the frame on a closing one
sendEvent(eventName) ==
    IF isConnected /\ clientWs # 0
    THEN LET rs == readyState(sockState, clientWs) IN
         /\ cout' = IF rs = "OPEN"
                    THEN <<[sock |-> clientWs,
                            frame |-> [type |-> "event", eventName |-> eventName,
                                       data |-> [n |-> 1]]]>>
                    ELSE <<>>
         /\ cstep' = [CStep("sendEvent", clientWs, "", 0) EXCEPT
                          !.err = IF rs = "CONNECTING" THEN "send threw" ELSE ""]
    ELSE /\ cout' = <<>>
         /\ cstep' = CStep("sendEvent", 0, "", 0)

\* the application calls sendEvent(eventName, data)
ClientSendEvent(eventName) ==
    /\ sendEvent(eventName)
    /\ changes' = <<>>
    /\ UNCHANGED <<connectionState, clientWs, requestId, pendingRequests,
                   heartbeatInterval, reconnectAttempts, reconnectTimeout,
                   sockState, timers, intervals, settled, reconnectDelay,
                   sinceArmed, afterRejection>>
    /\ UNCHANGED <<srvVars, obsVars, optVars, busVars>>

ClientNext ==
    \/ Advance
    \/ ClientConnect
    \/ ReconnectTimerFires
    \/ \E s \in Socks : ClientOnOpen(s)
    \/ \E s \in Socks, msg \in ClientResponseFrames : ClientOnResponse(s, msg)
    \/ \E s \in Socks, code \in CloseCodes : ClientOnClose(s, code)
    \/ \E s \in Socks : ClientOnError(s)
    \/ \E id \in ReqIds : RequestTimeout(id)
    \/ \E functionName \in {"add"} : request(functionName)
    \/ \E targetClient \in {"bob"}, functionName \in {"ping"} :
          requestClient(targetClient, functionName)
    \/ disconnect
    \/ \E eventName \in {"hi"} : ClientSendEvent(eventName)

\* the server stays as constructed
ClientInit == Init /\ maxConnections = 1000

ClientSpec == ClientInit /\ [][ClientNext]_vars

\* timers fire: a setTimeout that is armed and not cleared runs its callback
ClientFairSpec ==
    ClientSpec /\ \A id \in ReqIds : WF_vars(RequestTimeout(id))


\* ======================================================================
\* Claims about the router (checked under Spec)
\* ======================================================================
Registered(ws) == MapHas(connectedClients, ws)

\* the step dispatched a request frame of an authenticated socket
RequestDispatched ==
    step.act = "message" /\ step.msg.type = "request" /\ isAuthenticated[step.ws]

\* out is one response frame with the id of the step's request, on its socket
OneResponse ==
    /\ Len(out) = 1
    /\ out[1].to = step.ws
    /\ out[1].frame.type = "response"
    /\ out[1].frame.id = step.msg.id

\* C1 as stated: every request frame of an authenticated session is answered
\* by exactly one response frame with its id on the session's transport: when
\* the handler is absent, and when the handler returns or throws.  (Stated for
\* the sessions the server itself has not closed.)
C1_ExactlyOneResponse ==
    (step.ws \in Conns /\ closeCode[step.ws] = NotClosed) =>
        /\ RequestDispatched /\ step.msg.functionName \notin handlers => OneResponse
        /\ RequestDispatched /\ step.msg.functionName \in handlers => out = <<>>
        /\ step.act = "settle" => OneResponse

\* C1 amended: the response is sent when the handler is found absent or
\* settles, once, and only if the session's transport is OPEN at that moment;
\* otherwise the request gets no response.  Nothing is sent before the handler
\* settles.
C1_OneResponseIfOpen ==
    /\ step.act \in {"message", "settle"} /\ step.msg.type = "request" =>
          \A i \in 1..Len(out) : out[i].by = "sendResponse"
    /\ RequestDispatched /\ step.msg.functionName \notin handlers =>
          IF wsState[step.ws] = "OPEN" THEN OneResponse ELSE out = <<>>
    /\ RequestDispatched /\ step.msg.functionName \in handlers => out = <<>>
    /\ step.act = "settle" =>
          IF wsState[step.ws] = "OPEN" THEN OneResponse ELSE out = <<>>

\* a handler settled on an open session and its response went out
C1_Witness ==
    /\ step.act = "settle" /\ step.msg.id = "2" /\ OneResponse
    /\ out[1].frame.success

\* C2 as stated: a client_request of a registered caller whose target name has
\* a registered session with an open transport is delivered to such a session
\* with the caller's id and the caller's registered name as fromClient; and
\* the callee's response (originalFromClient = that fromClient) is delivered
\* to the caller, if it is still registered and open, with the same id.
\* (Stated for runs in which the server has closed no socket.)
C2_PeerRoundTrip ==
    (\A w \in Conns : closeCode[w] = NotClosed) =>
    /\ ( /\ step.act = "message" /\ step.msg.type = "client_request"
         /\ Registered(step.ws)
         /\ \E i \in 1..Len(connectedClients) :
               /\ connectedClients[i].name = step.msg.targetClient
               /\ wsState[connectedClients[i].ws] = "OPEN" )
       => \E i \in 1..Len(out) :
               /\ out[i].frame.type = "client_request"
               /\ out[i].frame.id = step.msg.id
               /\ out[i].frame.fromClient = getClientName(step.ws)
               /\ getClientName(out[i].to) = step.msg.targetClient
    /\ ( /\ step.act = "peerReply"
         /\ Registered(step.aux.caller)
         /\ wsState[step.aux.caller] = "OPEN" )
       => \E i \in 1..Len(out) :
               /\ out[i].to = step.aux.caller
               /\ out[i].frame.type = "response"
               /\ out[i].frame.id = step.aux.frame.id

\* C3 as stated: an event frame of a registered session is sent exactly once
\* to every other registered session whose transport is OPEN, with the same
\* eventName and fromClient = the sender's name, and never to the sender.
EventCopies(w) ==
    Len(SelectSeq(out, LAMBDA o :
            /\ o.to = w
            /\ o.frame.type = "event"
            /\ o.frame.eventName = step.msg.eventName
            /\ o.frame.fromClient = getClientName(step.ws)))

C3_FanOut ==
    ( step.act = "message" /\ step.msg.type = "event" /\ Registered(step.ws) )
    => \A w \in Conns :
          EventCopies(w) =
             IF w # step.ws /\ Registered(w) /\ wsState[w] = "OPEN" THEN 1 ELSE 0

\* C7 as stated: each client name is registered for at most one session.
C7_UniqueNames ==
    \A i, j \in 1..Len(connectedClients) :
        i # j => connectedClients[i].name # connectedClients[j].name

\* C8 as stated: an auth frame succeeds iff its token is in the credential
\* store and, when a name is supplied, the name stored for the token is the
\* supplied name.
C8_AuthDecision ==
    step.act \in {"authAccepted", "authRejected"} =>
        ( step.act = "authAccepted"
          <=> \E n \in DOMAIN clients :
                 /\ clients[n] = step.msg.token
                 /\ step.msg.name # Undefined => n = step.msg.name )

\* C9 as stated: nothing is dispatched for a socket that did not pass
\* authentication, a non-auth frame on such a socket closes it with 1008, and
\* a socket closed with 1008 for invalid credentials is never registered.
C9_AuthGate ==
    /\ step.act \in {"message", "peerReply"} /\ ~isAuthenticated[step.ws] =>
          /\ out = <<>>
          /\ wsState[step.ws] # "OPEN"
          /\ closeCode[step.ws].code \in {1008, 1002}
    /\ \A ws \in Conns :
          closeCode[ws] = [code |-> 1008, reason |-> "Invalid credentials"]
          => ~Registered(ws)

\* C10 as stated: an accepted auth frame is answered with an auth_success
\* frame carrying the name the session is registered under.
C10_AuthSuccessSent ==
    step.act = "authAccepted" =>
        \E i \in 1..Len(out) :
            /\ out[i].to = step.ws
            /\ out[i].frame.type = "auth_success"
            /\ out[i].frame.name = step.msg.name

\* ======================================================================
\* Claims about the client (checked under ClientSpec and ClientFairSpec)
\* ======================================================================
\* the calls of resolve / reject made for id by a response, by the deadline
\* timer or by cleanup
Completions(id) == SelectSeq(settled[id], LAMBDA o : o # "send threw")

\* C4: each request()/requestClient() call is settled at most once: of the
\* response, the deadline timer and the close of the connection, the first
\* removes the entry from the pending table and settles the caller; every
\* later one finds no entry and settles nothing.
C4_SettledAtMostOnce ==
    \A id \in ReqIds :
        /\ Len(Completions(id)) <= 1
        /\ id \in pendingRequests => Completions(id) = <<>>
        /\ id \in timers => id \in pendingRequests

\* a response for a call the deadline timer has already rejected
C4_Witness ==
    /\ cstep.act = "response" /\ cstep.id = "1"
    /\ settled["1"] = <<"TimeoutError">>

C6_EventuallyTerminal ==
    /\ [](cstep.act \in {"request", "requestClient"} /\ cstep.id = ""
             => cstep.err = "ConnectionError: Client not connected")
    /\ \A id \in ReqIds :
          (id \in pendingRequests) ~>
              (id \notin pendingRequests /\ settled[id] # <<>>)

\* a call that got no response was rejected by its deadline timer
C6_Witness ==
    /\ cstep.act = "timeout" /\ cstep.id = "2"
    /\ settled["2"] = <<"TimeoutError">>

\* C11 as stated: the client is Connected only after the transport opened and
\* the server accepted its credentials.  In the step in which the transport
\* opens the auth frame has at most just been sent and no frame of the server
\* has been received, so that step cannot make the client Connected.
C11_ConnectedAfterAuth ==
    cstep.act = "open" => connectionState # "connected"

\* C13: on a transport 'close', a reconnect is scheduled (state Reconnecting,
\* timer armed) iff the code is neither 1000 nor 1001, reconnectAttempts is
\* below maxReconnectAttempts and the client is not Disconnecting; otherwise
\* the client is Disconnected with no timer armed.
C13_ReconnectDecision ==
    [][ cstep'.act = "close" =>
          IF /\ cstep'.code \notin {1000, 1001}
             /\ reconnectAttempts < maxReconnectAttempts
             /\ connectionState # "disconnecting"
          THEN connectionState' = "reconnecting" /\ reconnectTimeout'
          ELSE connectionState' = "disconnected" /\ ~reconnectTimeout'
      ]_vars

\* a dirty close below the cap scheduled the second reconnect
C13_Witness ==
    /\ cstep.act = "close" /\ cstep.code = 1008
    /\ connectionState = "reconnecting" /\ reconnectTimeout
    /\ reconnectAttempts = 2

\* C14 as stated: reconnectAttempts never exceeds maxReconnectAttempts; a
\* dirty close at the cap leaves the client Disconnected with no reconnect
\* timer; and from there the client stays Disconnected until connect() is
\* called.
C14_ReconnectCap ==
    [][ /\ reconnectAttempts' <= maxReconnectAttempts
        /\ ( /\ cstep'.act = "close" /\ cstep'.code \notin {1000, 1001}
              /\ reconnectAttempts = maxReconnectAttempts )
           => connectionState' = "disconnected" /\ ~reconnectTimeout'
        /\ ( /\ cstep.act = "close" /\ cstep.code \notin {1000, 1001}
              /\ connectionState = "disconnected"
              /\ reconnectAttempts = maxReconnectAttempts
              /\ connectionState' # "disconnected" )
           => cstep'.act = "connect"
      ]_vars

\* C15: the n-th consecutive reconnect is scheduled with the delay
\* min(1000 * 1.5^(n-1), 30000) ms, n = reconnectAttempts after its increment,
\* n >= 1: 1000 for n = 1, non-decreasing in n, never above 30000; and the
\* timer's connect() does not start before the delay has passed.
C15_BackoffDelay ==
    /\ [](\A n \in 1..12 :
            /\ delay(n) <= delay(n + 1)
            /\ delay(n) >= 1000 /\ delay(n) <= 30000
            /\ IF 1000 * Pow(3, n - 1) <= 30000 * Pow(2, n - 1)
               THEN delay(n) = (1000 * Pow(3, n - 1)) \div Pow(2, n - 1)
               ELSE delay(n) = 30000)
    /\ [][ /\ (cstep'.act = "close" /\ reconnectTimeout') =>
               /\ reconnectAttempts' = reconnectAttempts + 1
               /\ reconnectAttempts' = 1 => reconnectDelay' = 1000
               /\ reconnectAttempts' = 2 => reconnectDelay' = 1500
               /\ reconnectAttempts' = 3 => reconnectDelay' = 2250
               /\ sinceArmed' = 0
           /\ cstep'.act = "reconnectTimer" =>
               reconnectTimeout /\ sinceArmed >= reconnectDelay
         ]_vars

\* the second reconnect's timer fired after its 1500 ms
C15_Witness ==
    /\ cstep.act = "reconnectTimer"
    /\ reconnectAttempts = 2
    /\ connectionState = "connecting"

\* C16 as stated: every stateChange(new, old) the client emits is an edge of
\* the diagram.
C16_DiagramEdges ==
    \A i \in 1..Len(changes) :
        <<changes[i].old, changes[i].new>> \in
            { <<"disconnected", "connecting">>, <<"connecting", "connected">>,
              <<"connecting", "disconnected">>, <<"connected", "disconnected">>,
              <<"connected", "reconnecting">>, <<"reconnecting", "connecting">>,
              <<"connected", "disconnecting">>,
              <<"disconnecting", "disconnected">> }

\* ----------------------------------------------------------------------
\* the `heartbeat` frames a step sent to a socket, and the clientTimeout
\* notifications it emitted
HeartbeatsTo(o, ws) ==
    Cardinality({j \in 1..Len(o) : o[j].to = ws /\ o[j].frame.type = "heartbeat"})
Timeouts(em) == {j \in 1..Len(em) : em[j].event = "clientTimeout"}

\* a session the tick evicts: deregistered, its transport not left open, and
\* reported by clientTimeout(name)
Evicted(e) ==
    /\ ~MapHas(connectedClients', e.ws)
    /\ wsState'[e.ws] # "OPEN"
    /\ \E j \in Timeouts(emitted') : emitted'[j].name = e.name
    /\ HeartbeatsTo(out', e.ws) = 0

\* a session the tick keeps: its entry and its transport are as they were
Kept(e) ==
    /\ MapHas(connectedClients', e.ws)
    /\ connectedClients'[Idx(connectedClients', e.ws)] = e
    /\ wsState'[e.ws] = wsState[e.ws]
    /\ closeCode'[e.ws] = closeCode[e.ws]

\* C12 as stated: on each supervisor tick a registered session is closed with
\* code 1000, deregistered and reported by clientTimeout(name) iff
\* now - lastHeartbeat > heartbeatTimeout, and is otherwise sent one
\* heartbeat frame.
C12_Stated ==
    [][ step'.act = "heartbeat" =>
          \A i \in 1..Len(connectedClients) :
             LET e == connectedClients[i] IN
             IF now' - e.lastHeartbeat > heartbeatTimeout
             THEN Evicted(e) /\ closeCode'[e.ws].code = 1000
             ELSE Kept(e) /\ HeartbeatsTo(out', e.ws) = 1 ]_vars

\* C12, amended: on each supervisor tick a registered session is deregistered
\* and reported by clientTimeout(name), and its transport if open is closed
\* with code 1000 "Heartbeat timeout", iff now - lastHeartbeat >
\* heartbeatTimeout; otherwise it stays registered and is sent one heartbeat
\* frame if its transport is open and none if it is closing.  One
\* clientTimeout is emitted per evicted session, and after the tick no
\* registered session is older than heartbeatTimeout.
C12_HeartbeatEviction ==
    [][ step'.act = "heartbeat" =>
          /\ \A i \in 1..Len(connectedClients) :
                LET e == connectedClients[i] IN
                IF now' - e.lastHeartbeat > heartbeatTimeout
                THEN /\ Evicted(e)
                     /\ wsState[e.ws] = "OPEN" =>
                           /\ closeCode'[e.ws].code = 1000
                           /\ closeCode'[e.ws].reason = "Heartbeat timeout"
                     /\ wsState[e.ws] # "OPEN" => closeCode'[e.ws] = closeCode[e.ws]
                ELSE /\ Kept(e)
                     /\ HeartbeatsTo(out', e.ws) =
                           IF wsState[e.ws] = "OPEN" THEN 1 ELSE 0
          /\ Len(emitted') = Len(connectedClients) - Len(connectedClients')
          /\ Cardinality(Timeouts(emitted')) = Len(emitted')
          /\ Len(out') <= Len(connectedClients')
          /\ \A i \in 1..Len(connectedClients') :
                now' - connectedClients'[i].lastHeartbeat <= heartbeatTimeout
      ]_vars

\* a tick evicted one session and sent a heartbeat to another whose last
\* heartbeat_response is exactly heartbeatTimeout old
C12_Witness ==
    /\ step.act = "heartbeat"
    /\ Len(emitted) = 1 /\ emitted[1].event = "clientTimeout"
    /\ Len(out) = 1 /\ out[1].frame.type = "heartbeat"
    /\ \E i \in 1..Len(connectedClients) :
          /\ connectedClients[i].ws = out[1].to
          /\ now - connectedClients[i].lastHeartbeat = heartbeatTimeout

\* ----------------------------------------------------------------------
\* C17: gracefulShutdown is idempotent.  A call made while a shutdown is
\* pending or after it finished returns the one shutdownPromise and changes
\* nothing of the server: it sends no frame, arms no timer, closes nothing.
\* At most one grace timer is ever armed, its callback (close(), resolve())
\* runs once, and a resolved completion stays resolved.
C17_ShutdownIdempotent ==
    /\ [](graceTimers <= 1)
    /\ [](shutdownPromise # "null" <=> isShuttingDown)
    /\ [][ /\ (step'.act = "gracefulShutdown" /\ shutdownPromise # "null") =>
               /\ out' = <<>>
               /\ emitted' = <<>>
               /\ UNCHANGED srvVars
           /\ step'.act = "shutdownTimer" =>
               shutdownPromise = "pending" /\ shutdownPromise' = "resolved"
           /\ shutdownPromise = "resolved" => shutdownPromise' = "resolved"
           /\ shutdownPromise = "pending" => shutdownDue' = shutdownDue
         ]_vars

\* a second call while the shutdown is pending and a session with an open
\* transport is registered: nothing was sent
C17_Witness ==
    /\ step.act = "gracefulShutdown"
    /\ shutdownPromise = "pending"
    /\ graceTimers = 1
    /\ out = <<>>
    /\ \E i \in 1..Len(connectedClients) : wsState[connectedClients[i].ws] = "OPEN"

\* ----------------------------------------------------------------------
\* C18 as stated: once gracefulShutdown has started, every new inbound
\* connection is closed with status 1013, and no connection that arrived
\* after the start is authenticated or registered.
C18_RejectedDuringShutdown ==
    [][ (step'.act = "connection" /\ isShuttingDown) =>
           /\ wsState'[step'.ws] # "OPEN"
           /\ closeCode'[step'.ws].code = 1013
           /\ ~attached'[step'.ws]
      ]_vars

\* ----------------------------------------------------------------------
\* the `shutdown` frames a step sent to a socket
ShutdownsTo(o, ws, reason) ==
    Cardinality({j \in 1..Len(o) : o[j].to = ws /\ o[j].frame = shutdownMessage(reason)})

\* C19 as stated: gracefulShutdown(reason) first sends every authenticated
\* session with an open transport one shutdown frame carrying reason and
\* gracePeriod = gracefulShutdownTimeout; no transport is closed with 1001
\* and the listener stays up before the grace period has elapsed; then every
\* remaining transport is closed with status 1001 and the listener is torn
\* down; the completion resolves only after that.
C19_ShutdownOrdering ==
    /\ [][ /\ (step'.act = "gracefulShutdown" /\ shutdownPromise = "null") =>
               /\ \A ws \in Conns :
                     ShutdownsTo(out', ws, step'.msg.reason) =
                         IF Registered(ws) /\ wsState[ws] = "OPEN" THEN 1 ELSE 0
               /\ Len(out') = Cardinality({ws \in Conns :
                                              Registered(ws) /\ wsState[ws] = "OPEN"})
               /\ wsState' = wsState /\ closeCode' = closeCode
               /\ shutdownDue' = now + gracefulShutdownTimeout
           /\ (shutdownPromise' = "pending") =>
               /\ listening'
               /\ \A ws \in Conns : closeCode'[ws].code # 1001
           /\ step'.act = "shutdownTimer" =>
               /\ now >= shutdownDue
               /\ \A ws \in Conns :
                     /\ wsState'[ws] # "OPEN"
                     /\ wsState[ws] = "OPEN" => closeCode'[ws].code = 1001
               /\ ~listening'
               /\ shutdownPromise' = "resolved"
         ]_vars
    /\ [](shutdownPromise = "resolved" => ~listening /\ now >= shutdownDue)

\* ----------------------------------------------------------------------
\* C20 as stated: in every reachable server state the number of registered
\* sessions is at most maxConnections.
C20_ConnectionLimit == Len(connectedClients) <= maxConnections

\* ----------------------------------------------------------------------
\* the calls of a one-shot handler that are still to come: one for each Set
\* holding it that the table or a dispatch which has not taken it refers to,
\* and one for each dispatch that took it and has not called it yet
Pending(n, h) ==
    Cardinality({id \in SetIds :
                    /\ h \in Members(sets[id])
                    /\ \/ onceHandlers[n] = id
                       \/ \E k \in 1..Len(stack) :
                             /\ stack[k].name = n
                             /\ stack[k].phase = "on"
                             /\ stack[k].once = id})
    + Cardinality({k \in 1..Len(stack) :
                    /\ stack[k].name = n
                    /\ stack[k].phase = "once"
                    /\ \E j \in (stack[k].i + 1)..Len(stack[k].handlersToRemove) :
                          stack[k].handlersToRemove[j] = h})

\* C21 as stated: a handler registered with once(name, h) is invoked by the
\* first dispatch of name after the registration and by no later one.  A
\* one-shot handler is called only for a registration not yet served; a
\* dispatch returns only when every one-shot handler that was in the table
\* when it began has been called; and every registration not yet served has
\* a call still to come (its handler is in the table when no dispatch is in
\* progress).
C21_OneShot ==
    /\ [][ /\ bstep'.act = "callOnce" => owed[bstep'.name][bstep'.handler] > 0
           /\ bstep'.act = "emitted" => Top.due = {}
         ]_vars
    /\ [](\A n \in BusNames, h \in BusHandlers : owed[n][h] = Pending(n, h))

HandlerFailed == step.act = "settle" /\ step.aux.outcome # "return"

\* C23 as stated: a handler that throws or rejects on a registered session
\* with an open transport yields one response with the request's id,
\* success = false and error = the error's message; the session stays
\* registered and open.
C23_Stated ==
    (HandlerFailed /\ Registered(step.ws) /\ wsState[step.ws] = "OPEN") =>
        out = <<Sent(step.ws,
                     ResponseFrame(step.msg.id, FALSE, Null, "error.message"),
                     "sendResponse")>>

\* C23, amended: when a handler throws or rejects, the server sends, if the
\* session's transport is open at that moment, one response with the
\* request's id, success = false and error = the message of the thrown
\* Error, or "Unknown error" when the thrown value is not an Error; if the
\* transport is not open it sends nothing.  The failure changes nothing of
\* the session: its registration, its transport, its listener and its
\* authentication are as before, so its later frames are processed as before.
C23_HandlerFailure ==
    [][ (step'.act = "settle" /\ step'.aux.outcome # "return") =>
          /\ \E k \in 1..Len(awaiting) :
                awaiting[k] = [ws |-> step'.ws, msg |-> step'.msg]
          /\ step'.msg.type = "request"
          /\ out' = IF wsState[step'.ws] = "OPEN"
                    THEN <<Sent(step'.ws,
                                ResponseFrame(step'.msg.id, FALSE, Null,
                                              IF step'.aux.outcome = "throw Error"
                                              THEN "error.message"
                                              ELSE "Unknown error"),
                                "sendResponse")>>
                    ELSE <<>>
          /\ emitted' = <<>>
          /\ UNCHANGED <<connectedClients, wsState, closeCode, attached,
                         isAuthenticated, clientName, clients, handlers>>
      ]_vars

\* a handler threw an Error on a registered open session and the failure
\* went out
C23_Witness ==
    /\ HandlerFailed /\ step.aux.outcome = "throw Error"
    /\ Registered(step.ws) /\ wsState[step.ws] = "OPEN"
    /\ Len(out) = 1 /\ ~out[1].frame.success

\* ----------------------------------------------------------------------
\* the step is handleClientRequest on an authenticated session
PeerRequested ==
    /\ step.act = "message" /\ step.msg.type = "client_request"
    /\ isAuthenticated[step.ws]

\* C24 as stated: a client_request whose targetClient is not registered is
\* answered to the caller with exactly one response with the caller's id,
\* success = false and error = "Target client not found" ("Target client not
\* available" when the target is registered and its transport is not open),
\* and nothing is forwarded.
C24_Stated ==
    (PeerRequested /\ wsState[step.ws] = "OPEN") =>
        LET t == findClientByName(step.msg.targetClient) IN
        /\ t = 0 =>
             out = <<Sent(step.ws,
                          ResponseFrame(step.msg.id, FALSE, Null,
                                        "Target client not found"),
                          "sendResponse")>>
        /\ (t # 0 /\ wsState[t] # "OPEN") =>
             out = <<Sent(step.ws,
                          ResponseFrame(step.msg.id, FALSE, Null,
                                        "Target client not available"),
                          "sendResponse")>>

\* C24, amended: a client_request whose targetClient names no session of the
\* registry is answered, if the caller's transport is open, with one response
\* with the caller's id, success = false and error = "Client not found: "
\* followed by the target's name; when the first session registered under
\* the name has a transport that is not open, the error is "Target client
\* not available".  In both cases nothing is forwarded and no session, no
\* transport and no registration changes; a caller whose transport is not
\* open gets nothing.
C24_MissingPeer ==
    [][ ( /\ step'.act = "message" /\ step'.msg.type = "client_request"
          /\ isAuthenticated[step'.ws] ) =>
          LET t == findClientByName(step'.msg.targetClient)
              notFound == [alice |-> "Client not found: alice",
                           bob |-> "Client not found: bob",
                           nobody |-> "Client not found: nobody"]
              error == IF t = 0 THEN notFound[step'.msg.targetClient]
                       ELSE "Target client not available"
          IN
          (t = 0 \/ wsState[t] # "OPEN") =>
             /\ out' = IF wsState[step'.ws] = "OPEN"
                       THEN <<Sent(step'.ws,
                                   ResponseFrame(step'.msg.id, FALSE, Null, error),
                                   "sendResponse")>>
                       ELSE <<>>
             /\ emitted' = <<>>
             /\ UNCHANGED <<peerPending, connectedClients, wsState, closeCode,
                            attached, isAuthenticated, clientName, awaiting>>
      ]_vars

\* alice, registered and open, asked for "nobody" and got the one reply
C24_Witness ==
    /\ PeerRequested /\ step.msg.targetClient = "nobody"
    /\ wsState[step.ws] = "OPEN" /\ Registered(step.ws)
    /\ Len(out) = 1 /\ out[1].to = step.ws /\ out[1].frame.id = step.msg.id
    /\ out[1].frame.error = "Client not found: nobody"

\* a caller was told that its registered target is not available
C24_NotAvailable ==
    /\ PeerRequested
    /\ Len(out) = 1 /\ out[1].frame.type = "response"
    /\ out[1].frame.error = "Target client not available"

\* ----------------------------------------------------------------------
\* the sessions registered under a name
SessionsOf(name) == SelectSeq(connectedClients, LAMBDA e : e.name = name)

\* C25: removeUser(name) removes the credential and disconnects the user:
\* when it returns no session registered under name remains in the registry,
\* and an auth frame for name is rejected until setUser(name, ...) is called.
C25_RemoveUser ==
    /\ step.act = "removeUser" =>
          /\ step.msg.name \notin DOMAIN clients
          /\ SessionsOf(step.msg.name) = <<>>
    /\ (step.act = "authAccepted") => step.msg.name \in DOMAIN clients

\* the part of C25 about the credential: an auth frame for a removed name is
\* rejected until setUser, and removeUser leaves the name without credential
C25_Credential ==
    /\ step.act = "removeUser" => step.msg.name \notin DOMAIN clients
    /\ step.act = "authAccepted" =>
          /\ step.msg.name \in DOMAIN clients
          /\ clients[step.msg.name] = step.msg.token
    /\ (step.act = "authRejected" /\ step.msg.name \in DOMAIN clients) =>
          clients[step.msg.name] # step.msg.token

\* a name without credential has no session: what removeUser leaves behind
\* stays so until setUser
C25_NoSessionWithoutCredential ==
    \A n \in Names : n \notin DOMAIN clients => SessionsOf(n) = <<>>

\* ----------------------------------------------------------------------
\* C26: a response frame whose id matches no entry of the pending table is
\* dropped: no promise is settled, no timer is cleared, nothing is sent, and
\* the pending table, requestId and the connection state are unchanged.
C26_UnmatchedResponseDropped ==
    [][ (cstep'.act = "response" /\ cstep'.id \notin pendingRequests) =>
          /\ UNCHANGED <<pendingRequests, requestId, connectionState, settled,
                         timers, clientWs, sockState, heartbeatInterval,
                         intervals, reconnectAttempts, reconnectTimeout>>
          /\ cout' = <<>>
          /\ changes' = <<>>
      ]_vars

\* the reply to a request that timed out arrived late, on a connected client
\* with another request pending
C26_Witness ==
    /\ cstep.act = "response"
    /\ cstep.id \in ReqIds /\ cstep.id \notin pendingRequests
    /\ settled[cstep.id] = <<"TimeoutError">>
    /\ pendingRequests # {}
    /\ connectionState = "connected"

\* the step issues a request: request() or requestClient() took an id
Issued(st) == st.act \in {"request", "requestClient"} /\ st.id # ""

\* C27 as stated: the id counter resets when a new connection is
\* established: the first request issued on a new connection (here, the
\* request issued right after the 'open' of the current socket) carries "1".
C27_Stated ==
    [][ (cstep.act = "open" /\ cstep.sock = clientWs /\ Issued(cstep')) =>
          cstep'.id = "1" ]_vars

\* C27, amended: the id counter is never reset.  It starts at 0, only
\* request() and requestClient() change it, each by one, and the id is the
\* decimal string of the new value: ids are strictly increasing over the
\* life of the client, across connections, so within one open connection
\* they are strictly increasing and no two pending requests share an id;
\* only the first request after construction carries "1".
C27_IdsIncrease ==
    /\ requestId = 0
    /\ [][ /\ requestId' >= requestId
           /\ Issued(cstep') =>
                 /\ requestId' = requestId + 1
                 /\ cstep'.id = toString(requestId')
                 /\ cstep'.id \notin pendingRequests
                 /\ pendingRequests' = pendingRequests \cup {cstep'.id}
           /\ requestId' # requestId => Issued(cstep')
       ]_vars
    /\ [](\A id \in pendingRequests : \E n \in 1..requestId : id = toString(n))

\* the first request on the client's second connection carries "2": request
\* "1" was rejected when the first connection closed
C27_Witness ==
    /\ Issued(cstep) /\ cstep.id = "2" /\ cstep.sock = 2 /\ clientWs = 2
    /\ sockState[1] = "CLOSED" /\ sockState[2] = "OPEN"
    /\ settled["1"] = <<"ConnectionError: Connection closed">>
    /\ pendingRequests = {"2"}

\* ----------------------------------------------------------------------
\* the registry entry of a registered socket
EntryOf(reg, ws) == reg[Idx(reg, ws)]

\* C28: lastHeartbeat of a session is written only when the session is
\* registered at authentication and when a heartbeat_response frame of the
\* session is received, both times with the current time; a request,
\* client_request, response or event frame, the settling of a handler and
\* the heartbeat timer leave the lastHeartbeat of every session unchanged.
C28_LastHeartbeatWriters ==
    [][ /\ \A i \in 1..Len(connectedClients') :
              LET e == connectedClients'[i] IN
              IF MapHas(connectedClients, e.ws)
              THEN e.lastHeartbeat # EntryOf(connectedClients, e.ws).lastHeartbeat =>
                      /\ step'.act = "message"
                      /\ step'.msg.type = "heartbeat_response"
                      /\ step'.ws = e.ws
                      /\ e.lastHeartbeat = now
              ELSE /\ step'.act = "authFinish" /\ step'.ws = e.ws
                   /\ e.lastHeartbeat = now
        /\ ( /\ step'.act \in {"message", "settle", "peerReply"}
             /\ step'.msg.type \in {"request", "client_request", "response",
                                    "event"} ) =>
              UNCHANGED connectedClients
        /\ ( /\ step'.act = "message" /\ step'.msg.type = "heartbeat_response"
             /\ MapHas(connectedClients, step'.ws) ) =>
              EntryOf(connectedClients', step'.ws).lastHeartbeat = now
       ]_vars

\* a session registered at time 0 sent an event two intervals later and its
\* lastHeartbeat is still 0
C28_Witness ==
    /\ step.act = "message" /\ step.msg.type = "event"
    /\ Registered(step.ws)
    /\ now = 2 * heartbeatEvery
    /\ EntryOf(connectedClients, step.ws).lastHeartbeat = 0
    /\ Len(out) = 1

\* ----------------------------------------------------------------------
\* the grace window: gracefulShutdown has started and close() has not run
InGraceWindow == isShuttingDown /\ shutdownPromise = "pending"

\* C29: heartbeats are disabled during shutdown: from the start of
\* gracefulShutdown until the server is closed the heartbeat timer sends no
\* heartbeat frame and evicts no session (no close with 1000 "Heartbeat
\* timeout", no clientTimeout).
C29_NoHeartbeatDuringShutdown ==
    (InGraceWindow /\ step.act = "heartbeat") =>
        /\ \A w \in Conns : HeartbeatsTo(out, w) = 0
        /\ Timeouts(emitted) = {}

\* the part of C29 that holds: once close() has run, the timer is cleared
\* and no heartbeat callback runs
C29_NoHeartbeatAfterClose ==
    shutdownPromise = "resolved" => ~serverHeartbeat /\ step.act # "heartbeat"

\* ----------------------------------------------------------------------
\* the 'message' listener of ws is suspended at `await handler(message.data)`
Suspended(ws) == \E k \in 1..Len(awaiting) : awaiting[k].ws = ws

\* C30: per-session frame processing is sequential: the server does not
\* start processing the next inbound frame of a session before the
\* processing of its previous frame, the await of an asynchronous request
\* handler included, has completed.
C30_SequentialPerSession ==
    [][ step'.act = "message" => ~Suspended(step'.ws) ]_vars

\* the part of C30 about distinct sessions: while the handler of one
\* session's request is awaited, a frame of another session is processed
C30_SessionsInterleave ==
    /\ step.act = "message" /\ step.msg.type = "event"
    /\ ~Suspended(step.ws)
    /\ \E w \in Conns : w # step.ws /\ Suspended(w)

\* ----------------------------------------------------------------------
\* the frames of a type among the frames a client step sent
FramesOf(o, type) == {j \in 1..Len(o) : o[j].frame.type = type}

\* C31: sendEvent called while the client is not Connected sends no frame,
\* does not throw and queues nothing: it changes no field of the client, and
\* an event frame is only ever sent by a sendEvent call made while Connected,
\* within that call.
C31_SendEventNotConnected ==
    [][ /\ (cstep'.act = "sendEvent" /\ connectionState # "connected") =>
              /\ cout' = <<>>
              /\ cstep'.err = ""
              /\ changes' = <<>>
              /\ UNCHANGED <<connectionState, clientWs, requestId, pendingRequests,
                             heartbeatInterval, reconnectAttempts, reconnectTimeout,
                             sockState, timers, intervals, settled>>
        /\ FramesOf(cout', "event") # {} =>
              /\ cstep'.act = "sendEvent"
              /\ connectionState = "connected"
       ]_vars

\* sendEvent was called while the client waits to reconnect
C31_Witness ==
    /\ cstep.act = "sendEvent"
    /\ connectionState = "reconnecting"
    /\ reconnectTimeout
    /\ cout = <<>> /\ cstep.err = ""

\* ----------------------------------------------------------------------
\* C32: request() and requestClient() called while the client is not
\* Connected reject with ConnectionError without sending a frame, and leave
\* the pending-request table and the request id counter unchanged (no id is
\* taken, no timer is armed).
C32_RequestNotConnected ==
    [][ ( /\ cstep'.act \in {"request", "requestClient"}
          /\ connectionState # "connected" ) =>
             /\ cstep'.err = "ConnectionError: Client not connected"
             /\ cstep'.id = ""
             /\ cout' = <<>>
             /\ UNCHANGED <<pendingRequests, requestId, timers, settled,
                            connectionState, clientWs, sockState>>
      ]_vars

\* requestClient was called on a client that waits to reconnect, after an
\* earlier request had taken id "1"
C32_Witness ==
    /\ cstep.act = "requestClient"
    /\ connectionState = "reconnecting"
    /\ cstep.err = "ConnectionError: Client not connected"
    /\ requestId = 1

\* ----------------------------------------------------------------------
\* the step handled a frame the server cannot decode: a text that is not
\* JSON, an object of no known type, or a request without its functionName
Undecodable ==
    /\ step.act = "message"
    /\ \/ step.msg.type \in {"<invalid json>", "bogus"}
       \/ step.msg.type = "request" /\ step.msg.functionName = Undefined

\* C33 as stated: a frame the server cannot decode is dropped without being
\* dispatched: from an authenticated session nothing is sent, the transport
\* stays open and the session stays registered; from a connection that is
\* not authenticated the transport is closed with status 1008.
C33_Stated ==
    [][ Undecodable' =>
          IF isAuthenticated[step'.ws]
          THEN /\ out' = <<>>
               /\ UNCHANGED <<wsState, closeCode, connectedClients, awaiting>>
          ELSE /\ out' = <<>>
               /\ wsState[step'.ws] = "OPEN" =>
                     /\ wsState'[step'.ws] = "CLOSING"
                     /\ closeCode'[step'.ws].code = 1008
      ]_vars

\* C33, amended: a text that is not JSON is not dispatched and closes the
\* transport, if open, with status 1002 "Invalid message format", whether or
\* not the session is authenticated; an authenticated session stays
\* registered until its transport's close is delivered.  A frame of unknown
\* type is dropped: from an authenticated session nothing changes and the
\* transport stays open; from a connection that is not authenticated the
\* transport, if open, is closed with status 1008 "Authentication required".
\* Fields are not validated: a request without functionName from an
\* authenticated session is dispatched and answered "Handler not found".
C33_Undecodable ==
    [][ Undecodable' =>
          LET ws == step'.ws
              closedWith(code, reason) ==
                  /\ wsState' = CloseState(wsState, ws)
                  /\ closeCode' = IF wsState[ws] = "OPEN"
                                  THEN [closeCode EXCEPT ![ws] =
                                           [code |-> code, reason |-> reason]]
                                  ELSE closeCode
                  /\ wsState[ws] = "OPEN" => wsState'[ws] = "CLOSING"
          IN
          /\ emitted' = <<>>
          /\ UNCHANGED <<connectedClients, isAuthenticated, clientName,
                         peerPending, microtasks>>
          /\ CASE step'.msg.type = "<invalid json>" ->
                    /\ closedWith(1002, "Invalid message format")
                    /\ out' = <<>>
                    /\ UNCHANGED awaiting
               [] ~isAuthenticated[ws] /\ step'.msg.type # "<invalid json>" ->
                    /\ closedWith(1008, "Authentication required")
                    /\ out' = <<>>
                    /\ UNCHANGED awaiting
               [] isAuthenticated[ws] /\ step'.msg.type = "bogus" ->
                    /\ out' = <<>>
                    /\ UNCHANGED <<wsState, closeCode, awaiting>>
               [] isAuthenticated[ws] /\ step'.msg.type = "request" ->
                    /\ out' = IF wsState[ws] = "OPEN"
                              THEN <<Sent(ws,
                                          ResponseFrame(step'.msg.id, FALSE, Null,
                                              <<"Handler not found: ", Undefined>>),
                                          "sendResponse")>>
                              ELSE <<>>
                    /\ UNCHANGED <<wsState, closeCode, awaiting>>
      ]_vars

\* a registered session with an open transport sent a text that is not JSON
\* and its transport is closing with 1002
C33_Witness ==
    /\ step.act = "message" /\ step.msg.type = "<invalid json>"
    /\ Registered(step.ws) /\ isAuthenticated[step.ws]
    /\ wsState[step.ws] = "CLOSING"
    /\ closeCode[step.ws] = [code |-> 1002, reason |-> "Invalid message format"]

\* ----------------------------------------------------------------------
\* the response frames the step forwarded to a caller
Forwarded(o) == {j \in 1..Len(o) : o[j].by = "handleResponse"}

\* C34: response authenticity: a response frame reaches a client, where its
\* id settles the pending request of that id, only from the party the
\* request was addressed to: the server forwards a response of a session to
\* a caller only if that caller's client_request with the response's id was
\* delivered to that session and is unanswered.
C34_ResponseAuthenticity ==
    [][ \A j \in Forwarded(out') :
           \E p \in peerPending :
              /\ p.to = step'.ws
              /\ p.caller = out'[j].to
              /\ p.frame.id = out'[j].frame.id
      ]_vars

\* what does hold: a response is forwarded only by a registered or
\* authenticated sender, to a session registered under originalFromClient
C34_ForwardedToNamed ==
    \A j \in Forwarded(out) :
       /\ isAuthenticated[step.ws]
       /\ Registered(out[j].to)
       /\ EntryOf(connectedClients, out[j].to).name = out[j].frame.originalFromClient

\* ----------------------------------------------------------------------
\* the valid auth frame of ws is being processed: handleAuth has accepted
\* it and the listener has not yet resumed to set isAuthenticated
AuthInProgress(ws) == \E k \in 1..Len(microtasks) : microtasks[k].ws = ws

\* C35: auth is atomic with respect to the frames that follow it: a frame
\* received on a connection while its valid auth frame is still being
\* processed is treated as authenticated and never answered with close 1008
\* "Authentication required".
C35_AuthAtomic ==
    [][ (step'.act = "message" /\ AuthInProgress(step'.ws)) =>
          /\ closeCode'[step'.ws].code # 1008
          /\ wsState'[step'.ws] = wsState[step'.ws]
      ]_vars

\* ----------------------------------------------------------------------
\* the names of the clientConnected notifications among em
Connected(em) == {em[j].name : j \in {i \in 1..Len(em) : em[i].event = "clientConnected"}}

\* getConnectedClientNames()
getConnectedClientNames(reg) == {reg[i].name : i \in 1..Len(reg)}

\* C36: when clientConnected(name) is emitted the session is already
\* registered: getConnectedClientNames() contains name and the session's
\* socket is in the registry, and a broadcast issued from inside a
\* clientConnected listener is delivered to the newly connected client too.
C36_RegisteredWhenAnnounced ==
    [][ /\ \A name \in Connected(emitted') :
              /\ name \in getConnectedClientNames(connectedClients')
              /\ MapHas(connectedClients', step'.ws)
        /\ (step.act = "authAccepted" /\ step'.act = "broadcast") =>
              \E j \in 1..Len(out') : out'[j].to = step.ws
      ]_vars

\* what does hold: the session of an announced name is registered by the
\* listener's next step, before any other task runs
C36_RegisteredNext ==
    [][ step.act = "authAccepted" /\ step'.act \notin {"broadcast", "setUser",
                                                       "removeUser"} =>
          /\ step'.act = "authFinish"
          /\ MapHas(connectedClients', step.ws)
      ]_vars

\* ----------------------------------------------------------------------
\* C37: disconnect() is a final intentional close: whatever state it was
\* called in and whatever close code the transport it closed reports
\* afterwards, the client arms no reconnect timer and stays Disconnected
\* (until connect() is called).  Stated for the event of that transport
\* that follows the call directly.
C37_DisconnectIsFinal ==
    [][ ( /\ cstep.act = "disconnect"
          /\ cstep'.act \in {"close", "error"}
          /\ cstep'.sock = cstep.sock ) =>
             /\ ~reconnectTimeout'
             /\ connectionState' = "disconnected"
      ]_vars

\* what does hold: disconnect() itself leaves the client Disconnected with
\* no transport, no timer, no heartbeat and no pending request, and a close
\* reporting 1000 or 1001 after it arms nothing
C37_DisconnectItself ==
    [][ /\ cstep'.act = "disconnect" =>
              /\ connectionState' = "disconnected" /\ clientWs' = 0
              /\ ~reconnectTimeout' /\ heartbeatInterval' = 0
              /\ pendingRequests' = {}
        /\ ( /\ cstep.act = "disconnect" /\ cstep'.act = "close"
             /\ cstep'.code \in {1000, 1001} ) =>
              ~reconnectTimeout' /\ connectionState' = "disconnected"
      ]_vars

\* ----------------------------------------------------------------------
\* C38: events of a superseded transport are inert: a close or error event
\* of a socket that is no longer the client's current transport rejects no
\* pending request of the current connection, does not stop its heartbeat
\* timer, does not change connectionState and schedules no reconnect.
C38_SupersededInert ==
    [][ ( /\ cstep'.act \in {"close", "error"}
          /\ clientWs # 0
          /\ cstep'.sock # clientWs ) =>
          UNCHANGED <<pendingRequests, settled, timers, heartbeatInterval,
                      intervals, connectionState, reconnectTimeout,
                      reconnectAttempts>>
      ]_vars

\* ----------------------------------------------------------------------
\* C39: a client whose credentials the server rejects (the transport opens,
\* then the server closes it with 1008) makes at most maxReconnectAttempts
\* automatic reconnect attempts: such closes never schedule more than
\* maxReconnectAttempts reconnects in a row.
C39_RejectedAttemptsBounded == afterRejection <= maxReconnectAttempts

\* a connection that never opens is given up after maxReconnectAttempts
\* attempts: with the attempts used up, a close arms no timer
C39_UnopenedAttemptsBounded ==
    [][ ( /\ cstep'.act = "close"
          /\ reconnectAttempts >= maxReconnectAttempts ) =>
             ~reconnectTimeout' /\ connectionState' = "disconnected"
      ]_vars

\* ----------------------------------------------------------------------
\* C40: dispatch never discards a one-shot subscription without invoking
\* it.  When a dispatch takes the one-shot handlers of its name, every
\* handler subscribed to the name just before is either among those the
\* dispatch goes on to call or still subscribed afterwards; this includes a
\* handler that a persistent handler of the same dispatch subscribed with
\* once(name, h), possibly after an off on the name.
C40_NoneDiscarded ==
    [][ bstep'.act = "takeOnce" =>
          \A h \in BusHandlers :
             ( /\ onceHandlers[Top.name] # 0
               /\ h \in Members(sets[onceHandlers[Top.name]]) ) =>
                \/ h \in Members(stack'[Len(stack)].handlersToRemove)
                \/ /\ onceHandlers'[Top.name] # 0
                   /\ h \in Members(sets'[onceHandlers'[Top.name]])
      ]_vars

\* with no off and no dispatch within the dispatch, the handler that a
\* persistent handler subscribes during the dispatch is kept or called
C40_KeptOrCalled ==
    [][ ( /\ bstep'.act = "takeOnce"
          /\ Top.once = onceHandlers[Top.name] ) =>
          \A h \in BusHandlers :
             ( /\ onceHandlers[Top.name] # 0
               /\ h \in Members(sets[onceHandlers[Top.name]]) ) =>
                h \in Members(stack'[Len(stack)].handlersToRemove)
      ]_vars
====
